---- MODULE Spec2Model ----
(***************************************************************************)
(* Model of the webui utilities of tool_builder:                           *)
(*   src/webui/src/utils/rag.ts        -- RAGStore and its text helpers    *)
(*   src/webui/src/utils/fileUtils.ts  -- the file processor               *)
(*   ChatScreen                        -- sendNewMessage and its state     *)
(*                                                                         *)
(* A JavaScript string is a sequence of UTF-16 code units (numbers).  A    *)
(* Map is a sequence of documents in insertion order, keyed by doc.id.     *)
(* A floating point score is kept exactly: the embedding of a text is the  *)
(* vector of bucket counts together with the square of its magnitude, and  *)
(* a cosine similarity is the pair <<n, d2>> standing for n / sqrt(d2).    *)
(***************************************************************************)
EXTENDS Integers, Sequences, FiniteSets, TLC

VARIABLES
    config,      \* RAGStore.config (rag.ts:124)
    documents,   \* RAGStore.documents (rag.ts:123), in Map iteration order
    now,         \* the value Date.now() returns, in milliseconds
    ret,         \* the last call: its name, arguments and return value
    issued,      \* history: the ids addDocument has returned
    addCount,    \* history: the number of addDocument calls so far
    insertedAt   \* history: id -> ordinal of the addDocument call that stored it

VARIABLES
    textarea,       \* ChatScreen: textarea.value()
    selectedFiles,  \* ChatScreen: the selectedFiles state
    extraContext,   \* ChatScreen: extraContext of useVSCodeContext
    sends           \* the invocations of sendNewMessage and how far each has run

vars == <<config, documents, now, ret, issued, addCount, insertedAt,
          textarea, selectedFiles, extraContext, sends>>

storeVars == <<config, documents, now, ret, issued, addCount, insertedAt>>

screenVars == <<textarea, selectedFiles, extraContext, sends>>

-----------------------------------------------------------------------------
(* Bounds of the model *)

MaxLen == 3       \* longest text given to the pure text functions
MaxCap == 2       \* largest maxDocuments a store is constructed with
MaxTime == 2      \* last clock value
MaxAdds == 4      \* addDocument calls in one behaviour

-----------------------------------------------------------------------------
(* Strings *)

SPACE == 32

\* code units used in texts: ' ', 'A', 'a', 'b'
Chars == {SPACE, 65, 97, 98}

\* the code units \s matches and trim() strips, among Chars
IsSpace(c) == c \in {9, 10, 11, 12, 13, SPACE}

RECURSIVE StringsUpTo(_)
StringsUpTo(n) ==
    IF n = 0 THEN {<<>>}
    ELSE LET shorter == StringsUpTo(n - 1)
         IN  shorter \cup {Append(s, c) : s \in {t \in shorter : Len(t) = n - 1}, c \in Chars}

\* String.prototype.toLowerCase on the ASCII range
ToLowerCase(s) == [i \in 1..Len(s) |-> IF s[i] >= 65 /\ s[i] <= 90 THEN s[i] + 32 ELSE s[i]]

\* s.split(/\s+/): every maximal run of whitespace is one separator, so a
\* leading or trailing run yields an empty token and "" yields <<"">>
RECURSIVE SplitFrom(_, _, _, _)
SplitFrom(s, i, cur, done) ==
    IF i > Len(s) THEN Append(done, cur)
    ELSE IF IsSpace(s[i])
         THEN IF i > 1 /\ IsSpace(s[i - 1])
              THEN SplitFrom(s, i + 1, cur, done)
              ELSE SplitFrom(s, i + 1, <<>>, Append(done, cur))
         ELSE SplitFrom(s, i + 1, Append(cur, s[i]), done)

SplitWhitespace(s) == SplitFrom(s, 1, <<>>, <<>>)

\* !s.trim(): trim() leaves "" exactly when every code unit is whitespace
IsBlank(s) == \A i \in 1..Len(s) : IsSpace(s[i])

-----------------------------------------------------------------------------
(* Numbers *)

\* A score is <<n, d2>> with n >= 0 and d2 > 0, standing for n / sqrt(d2).
ZeroScore == <<0, 1>>

\* a >= b for scores a and b (both sides are non-negative, so squares compare)
ScoreGE(a, b) == a[1] * a[1] * b[2] >= b[1] * b[1] * a[2]

ScoreGT(a, b) == a[1] * a[1] * b[2] > b[1] * b[1] * a[2]

\* the score of the fraction p / q
FractionScore(f) == <<f[1], f[2] * f[2]>>

\* (hash << 5) + hash + c, & 0xffffffff: the multiplier 33 in place of 31
HashStep33(h, c) ==
    LET lo  == (h % 65536) * 33 + c
        hi  == (h \div 65536) * 33 + (lo \div 65536)
        hiW == ((hi + 32768) % 65536) - 32768
    IN  hiW * 65536 + (lo % 65536)

\* ToInt32 of h * 31 + c for an int32 h, computed on 16-bit halves so that no
\* intermediate value leaves the 32-bit range: (hash << 5) - hash + c, & 0xffffffff
HashStep(h, c) ==
    LET lo  == (h % 65536) * 31 + c
        hi  == (h \div 65536) * 31 + (lo \div 65536)
        hiW == ((hi + 32768) % 65536) - 32768
    IN  hiW * 65536 + (lo % 65536)

RECURSIVE HashFrom(_, _, _)
HashFrom(word, i, h) ==
    IF i > Len(word) THEN h ELSE HashFrom(word, i + 1, HashStep(h, word[i]))

\* the loop of rag.ts:81-84
WordHash(word) == HashFrom(word, 1, 0)

EmbeddingLength == 100

\* Math.abs(hash) % embedding.length; Math.abs(-2^31) is 2^31, reached here
\* through -(h + 1) + 1
BucketIndex(h) ==
    IF h >= 0 THEN h % EmbeddingLength
    ELSE (((-(h + 1)) % EmbeddingLength) + 1) % EmbeddingLength

\* the indices of the non-zero components; the others add 0 to any sum below
Support(v) == {i \in DOMAIN v : v[i] # 0}

\* the sum of a[i] * b[i] over the given indices
RECURSIVE SumProducts(_, _, _)
SumProducts(a, b, indices) ==
    IF indices = {} THEN 0
    ELSE LET i == CHOOSE j \in indices : TRUE
         IN  a[i] * b[i] + SumProducts(a, b, indices \ {i})

\* reduce((sum, val) => sum + val * val, 0)
SumSquares(v) == SumProducts(v, v, Support(v))

\* dotProduct += a[i] * b[i]
DotProduct(a, b) == SumProducts(a, b, Support(a) \cap Support(b))

-----------------------------------------------------------------------------
(* Pure functions of rag.ts *)

\* The words the embedding loop runs over
EmbeddingWords(text) == SplitWhitespace(ToLowerCase(text))

\* The bucket counts after the loop of rag.ts:80-87
BucketCounts(text) ==
    LET words  == EmbeddingWords(text)
        bucket == [k \in 1..Len(words) |-> BucketIndex(WordHash(words[k]))]
    IN  [i \in 0..(EmbeddingLength - 1) |->
            Cardinality({k \in 1..Len(words) : bucket[k] = i})]

\* The returned vector has component i equal to num[i] / sqrt(den2): the counts
\* divided by their magnitude when that is > 0, the counts themselves otherwise.
generateSimpleEmbedding(text) ==
    LET counts == BucketCounts(text)
        mag2   == SumSquares(counts)
    IN  [num |-> counts, den2 |-> IF mag2 > 0 THEN mag2 ELSE 1]

\* dotProduct / (sqrt(normA) * sqrt(normB)) with dotProduct = dot / sqrt(a.den2 * b.den2),
\* normA = na / a.den2 and normB = nb / b.den2, in exact arithmetic
cosineSimilarity(a, b) ==
    LET dot == DotProduct(a.num, b.num)
        na  == SumSquares(a.num)
        nb  == SumSquares(b.num)
    IN  IF DOMAIN a.num # DOMAIN b.num THEN ZeroScore
        ELSE IF na * nb > 0 THEN <<dot, na * nb>> ELSE ZeroScore

\* The fraction <<matches, queryTerms.length>>, 0 written <<0, 1>>
calculateSimpleSimilarity(query, document) ==
    LET queryTerms == SplitWhitespace(ToLowerCase(query))
        docTerms   == SplitWhitespace(ToLowerCase(document))
        docTermSet == {docTerms[k] : k \in 1..Len(docTerms)}
        matches    == Cardinality({k \in 1..Len(queryTerms) : queryTerms[k] \in docTermSet})
    IN  IF Len(queryTerms) > 0 THEN <<matches, Len(queryTerms)>> ELSE <<0, 1>>

-----------------------------------------------------------------------------
(* Inputs *)

\* the suffixes Math.random().toString(36).substr(2, 9) yields
Suffixes == {"k3x9", "p0q"}

SearchSuffixes == Suffixes \cup {"z81"}

Ids == {<<t, r>> : t \in 1..MaxTime, r \in Suffixes}

\* a metadata object without keys; spreading undefined gives the same
NoMetadata == [k \in {} |-> 0]

\* " " and "a b" as code units
Blank == <<SPACE>>
TextAB == <<97, SPACE, 98>>

\* what callers pass to addDocument
DocInputs ==
    { [title |-> "Getting Started Guide", content |-> TextAB, metadata |-> NoMetadata],
      [title |-> "notes.txt", content |-> <<97>>,
       metadata |-> [source |-> "file_upload", type |-> "text/plain",
                     timestamp |-> 0, size |-> 99]] }

\* "a", "A " and "a b"
SearchContents == { <<97>>, <<65, SPACE>>, TextAB }

SearchDocInputs ==
    { [title |-> "doc", content |-> c, metadata |-> NoMetadata] : c \in SearchContents }

\* "", " ", "a", " b"
Queries == { <<>>, Blank, <<97>>, <<SPACE, 98>> }

\* similarityThreshold as a fraction <<p, q>>; 1/2 is the default
StoreConfigs ==
    { [maxDocuments |-> n, similarityThreshold |-> <<1, 2>>, maxRetrievedDocs |-> 5]
        : n \in 1..MaxCap }

SearchConfigs ==
    { [maxDocuments |-> 3, similarityThreshold |-> <<1, 2>>, maxRetrievedDocs |-> 2],
      [maxDocuments |-> 3, similarityThreshold |-> <<3, 4>>, maxRetrievedDocs |-> 1] }

\* generateSimpleEmbedding on the texts the specifications use, evaluated once
EmbeddingTable ==
    [text \in {d.content : d \in DocInputs \cup SearchDocInputs} \cup Queries
        |-> generateSimpleEmbedding(text)]

EmbeddingOf(text) ==
    IF text \in DOMAIN EmbeddingTable THEN EmbeddingTable[text]
    ELSE generateSimpleEmbedding(text)

-----------------------------------------------------------------------------
(* RAGStore: the Map of documents *)

\* { ...a, ...b }: the keys of both, b's value where both have the key
Spread(a, b) ==
    [k \in (DOMAIN a) \cup (DOMAIN b) |-> IF k \in DOMAIN b THEN b[k] ELSE a[k]]

MapKeys(m) == {m[i].id : i \in 1..Len(m)}

MapHas(m, id) == id \in MapKeys(m)

MapGet(m, id) == m[CHOOSE i \in 1..Len(m) : m[i].id = id]

\* Map.prototype.set: a present key keeps its place, a new key goes last
MapSet(m, id, document) ==
    IF MapHas(m, id)
    THEN [i \in 1..Len(m) |-> IF m[i].id = id THEN document ELSE m[i]]
    ELSE Append(m, document)

\* MapDelete dropping the first entry instead of the one with the key
MapDeleteFirst(m, id) == IF MapHas(m, id) THEN Tail(m) ELSE m

\* Map.prototype.delete: the map without the key
MapDelete(m, id) == SelectSeq(m, LAMBDA d : d.id # id)

\* a[1].metadata?.timestamp || 0
TimestampOrZero(d) ==
    IF "timestamp" \in DOMAIN d.metadata THEN d.metadata.timestamp ELSE 0

\* doc.metadata?.size || 0
SizeOrZero(d) ==
    IF "size" \in DOMAIN d.metadata THEN d.metadata.size ELSE 0

\* Array.prototype.sort is stable: x goes behind every element that does not
\* compare greater than it
RECURSIVE InsertByTimestamp(_, _)
InsertByTimestamp(sorted, x) ==
    IF sorted = <<>> THEN <<x>>
    ELSE IF TimestampOrZero(sorted[1]) - TimestampOrZero(x) <= 0
         THEN <<sorted[1]>> \o InsertByTimestamp(Tail(sorted), x)
         ELSE <<x>> \o sorted

RECURSIVE SortByTimestamp(_)
SortByTimestamp(entries) ==
    IF entries = <<>> THEN <<>>
    ELSE InsertByTimestamp(SortByTimestamp(SubSeq(entries, 1, Len(entries) - 1)),
                           entries[Len(entries)])

\* the id of the last entry of the sorted array instead of the first
NewestId(m) == SortByTimestamp(m)[Len(m)].id

\* rag.ts:158-159
OldestId(m) == SortByTimestamp(m)[1].id

\* LimitDocuments with the comparison off by one
LimitDocumentsLate(m, maxDocuments) ==
    IF Len(m) > maxDocuments + 1 THEN MapDelete(m, OldestId(m)) ELSE m

\* rag.ts:157-161
LimitDocuments(m, maxDocuments) ==
    IF Len(m) > maxDocuments THEN MapDelete(m, OldestId(m)) ELSE m

\* NewDocument with the caller's metadata spread after the store's
NewDocumentCallerWins(doc, id, timestamp) ==
    Spread(doc,
           [id        |-> id,
            embedding |-> EmbeddingOf(doc.content),
            metadata  |-> Spread([timestamp |-> timestamp, size |-> Len(doc.content)],
                                 doc.metadata)])

\* rag.ts:143-152: the caller's keys, then id, embedding and the store's metadata
NewDocument(doc, id, timestamp) ==
    Spread(doc,
           [id        |-> id,
            embedding |-> EmbeddingOf(doc.content),
            metadata  |-> Spread(doc.metadata,
                                 [timestamp |-> timestamp, size |-> Len(doc.content)])])

RECURSIVE SumSizes(_)
SumSizes(docs) ==
    IF docs = <<>> THEN 0 ELSE SizeOrZero(docs[1]) + SumSizes(Tail(docs))

RECURSIVE SumTimestamps(_)
SumTimestamps(docs) ==
    IF docs = <<>> THEN 0 ELSE TimestampOrZero(docs[1]) + SumTimestamps(Tail(docs))

\* StatsOf adding up metadata.timestamp instead of metadata.size
StatsOfTimestamps(m) == [documentCount |-> Len(m), totalSize |-> SumTimestamps(m)]

\* rag.ts:235-241
StatsOf(m) == [documentCount |-> Len(m), totalSize |-> SumSizes(m)]

-----------------------------------------------------------------------------
(* RAGStore.searchDocuments *)

\* rag.ts:193-198: cosine similarity of the embeddings, the lexical fallback
\* for a document without one
ScoreOf(query, queryEmbedding, doc) ==
    IF "embedding" \in DOMAIN doc
    THEN cosineSimilarity(queryEmbedding, doc.embedding)
    ELSE FractionScore(calculateSimpleSimilarity(query, doc.content))

\* rag.ts:189-203: the documents that reach the threshold, in Map order
RECURSIVE ScoredResults(_, _, _, _)
ScoredResults(query, queryEmbedding, m, threshold) ==
    IF m = <<>> THEN <<>>
    ELSE LET score == ScoreOf(query, queryEmbedding, m[1])
             rest  == ScoredResults(query, queryEmbedding, Tail(m), threshold)
         IN  IF ScoreGE(score, FractionScore(threshold))
             THEN <<[doc |-> m[1], score |-> score]>> \o rest
             ELSE rest

\* stable sort with the comparator (a, b) => b.score - a.score
RECURSIVE InsertByScore(_, _)
InsertByScore(sorted, x) ==
    IF sorted = <<>> THEN <<x>>
    ELSE IF ScoreGE(sorted[1].score, x.score)
         THEN <<sorted[1]>> \o InsertByScore(Tail(sorted), x)
         ELSE <<x>> \o sorted

RECURSIVE SortByScore(_)
SortByScore(results) ==
    IF results = <<>> THEN <<>>
    ELSE InsertByScore(SortByScore(SubSeq(results, 1, Len(results) - 1)),
                       results[Len(results)])

\* Array.prototype.slice(0, n) for n >= 0
SliceTo(a, n) == SubSeq(a, 1, IF n < Len(a) THEN n ELSE Len(a))

\* TopResults slicing before it sorts
TopResultsSliceFirst(results, maxRetrievedDocs) ==
    LET top == SortByScore(SliceTo(results, maxRetrievedDocs))
    IN  [i \in 1..Len(top) |-> top[i].doc]

\* rag.ts:206-209
TopResults(results, maxRetrievedDocs) ==
    LET top == SliceTo(SortByScore(results), maxRetrievedDocs)
    IN  [i \in 1..Len(top) |-> top[i].doc]

\* searchDocuments testing the query without trim()
searchDocumentsNoTrim(query, m, cfg) ==
    IF query = <<>> THEN [found |-> <<>>, scored |-> 0]
    ELSE [found  |-> TopResults(ScoredResults(query, EmbeddingOf(query), m,
                                              cfg.similarityThreshold),
                                cfg.maxRetrievedDocs),
          scored |-> Len(m)]

\* rag.ts:183-210; scored is the number of documents the loop scored
searchDocuments(query, m, cfg) ==
    IF IsBlank(query) THEN [found |-> <<>>, scored |-> 0]
    ELSE [found  |-> TopResults(ScoredResults(query, EmbeddingOf(query), m,
                                              cfg.similarityThreshold),
                                cfg.maxRetrievedDocs),
          scored |-> Len(m)]

-----------------------------------------------------------------------------
(* Operations *)

InitWith(configs, calls) ==
    /\ config \in configs
    /\ documents = <<>>
    /\ now = 1
    /\ ret \in calls
    /\ issued = {}
    /\ addCount = 0
    /\ insertedAt = [k \in {} |-> 0]
    /\ textarea = <<>>
    /\ selectedFiles = <<>>
    /\ extraContext = <<>>
    /\ sends = <<>>

\* time passes between two calls; Date.now() never runs backwards here
Tick ==
    /\ now < MaxTime
    /\ now' = now + 1
    /\ UNCHANGED <<config, documents, ret, issued, addCount, insertedAt>>
    /\ UNCHANGED screenVars

\* rag.ts:133-164.  suffix is what Math.random() contributes to the id; later is
\* what the second Date.now() (rag.ts:149) returns, the first (rag.ts:134) being now
AddDocument(doc, suffix, later) ==
    /\ addCount < MaxAdds
    /\ later >= now /\ later <= MaxTime
    /\ LET id       == <<now, suffix>>
           document == NewDocument(doc, id, later)
           stored   == LimitDocuments(MapSet(documents, id, document),
                                      config.maxDocuments)
       IN  /\ documents' = stored
           /\ ret' = [op |-> "addDocument", doc |-> doc, id |-> id]
           /\ issued' = issued \cup {id}
           /\ insertedAt' = [k \in MapKeys(stored) |->
                                IF k = id THEN addCount + 1 ELSE insertedAt[k]]
    /\ now' = later
    /\ addCount' = addCount + 1
    /\ UNCHANGED config
    /\ UNCHANGED screenVars

\* rag.ts:169-171
RemoveDocument(id) ==
    /\ documents' = MapDelete(documents, id)
    /\ ret' = [op |-> "removeDocument", id |-> id, removed |-> MapHas(documents, id)]
    /\ insertedAt' = [k \in MapKeys(documents) \ {id} |-> insertedAt[k]]
    /\ UNCHANGED <<config, now, issued, addCount>>
    /\ UNCHANGED screenVars

\* rag.ts:176-178
GetAllDocuments ==
    /\ ret' = [op |-> "getAllDocuments", docs |-> documents]
    /\ UNCHANGED <<config, documents, now, issued, addCount, insertedAt>>
    /\ UNCHANGED screenVars

\* rag.ts:183-210
SearchDocuments(query) ==
    /\ ret' = Spread([op |-> "searchDocuments", query |-> query],
                     searchDocuments(query, documents, config))
    /\ UNCHANGED <<config, documents, now, issued, addCount, insertedAt>>
    /\ UNCHANGED screenVars

\* rag.ts:228-230
Clear ==
    /\ documents' = <<>>
    /\ ret' = [op |-> "clear"]
    /\ insertedAt' = [k \in {} |-> 0]
    /\ UNCHANGED <<config, now, issued, addCount>>
    /\ UNCHANGED screenVars

\* rag.ts:235-241
GetStats ==
    /\ ret' = Spread([op |-> "getStats"], StatsOf(documents))
    /\ UNCHANGED <<config, documents, now, issued, addCount, insertedAt>>
    /\ UNCHANGED screenVars

\* a direct call of generateSimpleEmbedding
CallEmbedding(text) ==
    /\ ret' = [op |-> "generateSimpleEmbedding", text |-> text,
               embedding |-> generateSimpleEmbedding(text)]
    /\ UNCHANGED <<config, documents, now, issued, addCount, insertedAt>>
    /\ UNCHANGED screenVars

\* a direct call of calculateSimpleSimilarity
CallSimilarity(query, document) ==
    /\ ret' = [op |-> "calculateSimpleSimilarity", query |-> query,
               document |-> document,
               fraction |-> calculateSimpleSimilarity(query, document)]
    /\ UNCHANGED <<config, documents, now, issued, addCount, insertedAt>>
    /\ UNCHANGED screenVars

-----------------------------------------------------------------------------
(* Specifications *)

\* the store under insertion, removal and the clock
Init == InitWith(StoreConfigs, {[op |-> "none"]})

Next ==
    \/ \E doc \in DocInputs, suffix \in Suffixes, later \in {now, now + 1} :
          AddDocument(doc, suffix, later)
    \/ \E id \in Ids : RemoveDocument(id)
    \/ Clear
    \/ GetStats
    \/ GetAllDocuments
    \/ Tick

Spec == Init /\ [][Next]_vars

\* the store under insertion and search; the clock plays no part in a search,
\* so the documents are inserted within one millisecond
InitSearch == InitWith(SearchConfigs, {[op |-> "none"]})

NextSearch ==
    \/ \E doc \in SearchDocInputs, suffix \in SearchSuffixes :
          AddDocument(doc, suffix, now)
    \/ \E query \in Queries : SearchDocuments(query)

SpecSearch == InitSearch /\ [][NextSearch]_vars

\* the pure text functions on every pair of texts of at most MaxLen code units
PureInputs ==
    {[op |-> "input", query |-> q, document |-> d]
        : q \in StringsUpTo(MaxLen), d \in StringsUpTo(MaxLen)}

InitPure == InitWith({[maxDocuments |-> 1, similarityThreshold |-> <<1, 2>>,
                       maxRetrievedDocs |-> 5]}, PureInputs)

NextPure ==
    \/ ret.op = "input" /\ CallEmbedding(ret.document)
    \/ ret.op = "input" /\ CallSimilarity(ret.query, ret.document)

SpecPure == InitPure /\ [][NextPure]_vars

-----------------------------------------------------------------------------
(* Properties of the store *)

Range(seq) == {seq[i] : i \in 1..Len(seq)}

\* seq without its element at index v
Without(seq, v) == [i \in 1..(Len(seq) - 1) |-> IF i < v THEN seq[i] ELSE seq[i + 1]]

AddStep == addCount' = addCount + 1

\* C1: a store constructed with maxDocuments >= 1 never holds more than
\* maxDocuments documents, whatever sequence of addDocument, removeDocument and
\* clear has returned.
C1_CountWithinCap ==
    config.maxDocuments >= 1 => Len(documents) <= config.maxDocuments

\* an insertion into a full store has returned, and more ids were issued than fit
C1_Witness ==
    /\ ret.op = "addDocument"
    /\ Len(documents) = config.maxDocuments
    /\ Cardinality(issued) > config.maxDocuments

\* C2: an addDocument that brings the count to maxDocuments + 1 removes exactly
\* one document, one with the smallest metadata.timestamp; the others stay as
\* they were, and among several with the smallest timestamp the one inserted
\* earliest is removed.
C2_EvictsEarliestOfOldest ==
    [][(AddStep /\ ~MapHas(documents, ret'.id) /\ Len(documents) = config.maxDocuments)
        => LET full   == Append(documents, NewDocument(ret'.doc, ret'.id, now'))
               ord(d) == IF d.id = ret'.id THEN addCount' ELSE insertedAt[d.id]
           IN  \E v \in 1..Len(full) :
                  /\ documents' = Without(full, v)
                  /\ \A j \in 1..Len(full) :
                        /\ full[v].metadata.timestamp <= full[j].metadata.timestamp
                        /\ full[j].metadata.timestamp = full[v].metadata.timestamp
                              => ord(full[v]) <= ord(full[j])]_vars

\* C3: every id addDocument returns differs from every id it returned before,
\* so the number of ids issued is the number of calls.
C3_IdsNeverReused == Cardinality(issued) = addCount

\* C4: the document addDocument stores has metadata.timestamp equal to the
\* insertion time and metadata.size equal to the length of its content, whatever
\* the caller supplied for those keys, and the caller's source and type as supplied.
C4_StoreAssignedMetadata ==
    [][(AddStep /\ MapHas(documents', ret'.id))
        => LET d        == MapGet(documents', ret'.id)
               supplied == ret'.doc.metadata
           IN  /\ d.content = ret'.doc.content
               /\ d.title = ret'.doc.title
               /\ DOMAIN d.metadata = DOMAIN supplied \cup {"timestamp", "size"}
               /\ d.metadata.timestamp = now'
               /\ d.metadata.size = Len(ret'.doc.content)
               /\ \A k \in DOMAIN supplied \ {"timestamp", "size"} :
                     d.metadata[k] = supplied[k]]_vars

\* the caller supplied a timestamp and a size, and the stored ones differ from them
C4_Witness ==
    /\ ret.op = "addDocument"
    /\ {"timestamp", "size", "source", "type"} \subseteq DOMAIN ret.doc.metadata
    /\ MapHas(documents, ret.id)
    /\ MapGet(documents, ret.id).metadata.timestamp # ret.doc.metadata.timestamp
    /\ MapGet(documents, ret.id).metadata.size # ret.doc.metadata.size
    /\ MapGet(documents, ret.id).metadata.source = ret.doc.metadata.source

\* C5: removeDocument(id) returns true exactly when a document with that id
\* was stored, and then removes that document and no other; otherwise it
\* returns false and leaves the store as it was.
C5_RemoveExactlyThatDocument ==
    [][\A id \in Ids : RemoveDocument(id)
        => /\ ret'.removed = (\E d \in Range(documents) : d.id = id)
           /\ ret'.removed
                 => /\ Len(documents') = Len(documents) - 1
                    /\ \A d \in Range(documents') : d.id # id
                    /\ \A d \in Range(documents) : d.id # id => d \in Range(documents')
           /\ ~ret'.removed => documents' = documents]_vars

\* a stored document was removed and another one is still there
C5_Witness ==
    /\ ret.op = "removeDocument"
    /\ ret.removed
    /\ Len(documents) >= 1
    /\ ~MapHas(documents, ret.id)

\* a removal of an id that is not stored, from a store that is not empty
C5_WitnessMissing ==
    /\ ret.op = "removeDocument"
    /\ ~ret.removed
    /\ Len(documents) >= 1

RECURSIVE SumContentLengths(_)
SumContentLengths(docs) ==
    IF docs = <<>> THEN 0 ELSE Len(docs[1].content) + SumContentLengths(Tail(docs))

\* C10: getStats returns the number of stored documents and the sum of their
\* content lengths, after any sequence of insertions, evictions and removals;
\* after clear the store is empty, so both are 0 and getAllDocuments is empty.
C10_StatsMatchStore ==
    /\ ret.op = "getStats"
          => /\ ret.documentCount = Len(documents)
             /\ ret.totalSize = SumContentLengths(documents)
    /\ ret.op = "clear" => documents = <<>> /\ StatsOf(documents).totalSize = 0
    /\ ret.op = "getAllDocuments" => ret.docs = documents

\* statistics read from a full store after more insertions than it holds
C10_Witness ==
    /\ ret.op = "getStats"
    /\ ret.documentCount = 2
    /\ ret.totalSize > 0
    /\ Cardinality(issued) > 2

\* C2 without a repeated id: the same statement for the behaviours in which
\* every id issued so far is distinct.
C2_HoldsWhileIdsDistinct ==
    [][(AddStep /\ Cardinality(issued') = addCount'
          /\ ~MapHas(documents, ret'.id) /\ Len(documents) = config.maxDocuments)
        => LET full   == Append(documents, NewDocument(ret'.doc, ret'.id, now'))
               ord(d) == IF d.id = ret'.id THEN addCount' ELSE insertedAt[d.id]
           IN  \E v \in 1..Len(full) :
                  /\ documents' = Without(full, v)
                  /\ \A j \in 1..Len(full) :
                        /\ full[v].metadata.timestamp <= full[j].metadata.timestamp
                        /\ full[j].metadata.timestamp = full[v].metadata.timestamp
                              => ord(full[v]) <= ord(full[j])]_vars

-----------------------------------------------------------------------------
(* Properties of searchDocuments *)

SearchReturned == ret.op = "searchDocuments"

\* the score searchDocuments gives the stored document at index i for ret.query
StoredScore(i) == ScoreOf(ret.query, EmbeddingOf(ret.query), documents[i])

Qualifying ==
    {i \in 1..Len(documents) :
        ScoreGE(StoredScore(i), FractionScore(config.similarityThreshold))}

SameScore(i, j) ==
    ScoreGE(StoredScore(i), StoredScore(j)) /\ ScoreGE(StoredScore(j), StoredScore(i))

\* i ranks before j: a higher score, or the same score and earlier in the store
RanksBefore(i, j) ==
    \/ ScoreGT(StoredScore(i), StoredScore(j))
    \/ SameScore(i, j) /\ i < j

\* the index in the store of the k-th returned document
FoundIndex(k) == CHOOSE i \in 1..Len(documents) : documents[i] = ret.found[k]

\* C6: for a non-blank query the result is the first maxRetrievedDocs entries of
\* the stored documents scoring at least similarityThreshold, ordered by score
\* descending and, for equal scores, by store order.
C6_TopQualifyingInOrder ==
    (SearchReturned /\ ~IsBlank(ret.query))
        => /\ Len(ret.found) <= config.maxRetrievedDocs
           /\ Len(ret.found) = IF Cardinality(Qualifying) < config.maxRetrievedDocs
                               THEN Cardinality(Qualifying)
                               ELSE config.maxRetrievedDocs
           /\ \A k \in 1..Len(ret.found) :
                 /\ ret.found[k] \in Range(documents)
                 /\ FoundIndex(k) \in Qualifying
           /\ \A k, l \in 1..Len(ret.found) :
                 k < l => RanksBefore(FoundIndex(k), FoundIndex(l))
           /\ \A i \in Qualifying :
                 (\A k \in 1..Len(ret.found) : FoundIndex(k) # i)
                     => \A k \in 1..Len(ret.found) : RanksBefore(FoundIndex(k), i)

\* more documents qualify than are returned, two returned ones tie and a
\* qualifying document with the same score as the last returned one is left out
C6_Witness ==
    /\ SearchReturned
    /\ ~IsBlank(ret.query)
    /\ Len(ret.found) = 2
    /\ Cardinality(Qualifying) = 3
    /\ SameScore(FoundIndex(1), FoundIndex(2))
    /\ FoundIndex(1) < FoundIndex(2)

\* a document below the threshold is left out although fewer than
\* maxRetrievedDocs documents are returned
C6_WitnessBelowThreshold ==
    /\ SearchReturned
    /\ ~IsBlank(ret.query)
    /\ Len(ret.found) = 1
    /\ config.maxRetrievedDocs = 2
    /\ Len(documents) = 3

\* C7: searchDocuments with an empty or whitespace-only query returns the empty
\* sequence, whatever the store holds, and scores no document.
C7_BlankQueryFindsNothing ==
    (SearchReturned /\ \A i \in 1..Len(ret.query) : ret.query[i] = SPACE)
        => ret.found = <<>> /\ ret.scored = 0

\* a whitespace-only query on a store holding a document that would reach the
\* threshold if it were scored
C7_Witness ==
    /\ SearchReturned
    /\ ret.query = Blank
    /\ ret.found = <<>>
    /\ \E i \in 1..Len(documents) :
          ScoreGE(cosineSimilarity(generateSimpleEmbedding(Blank), documents[i].embedding),
                  FractionScore(config.similarityThreshold))

-----------------------------------------------------------------------------
(* Properties of the pure functions *)

IsZeroVector(e) == \A i \in DOMAIN e.num : e.num[i] = 0

\* the squared Euclidean norm of e is 1
HasUnitNorm(e) == SumSquares(e.num) = e.den2

\* C8: generateSimpleEmbedding(content) is the all-zero vector when content is
\* empty or only whitespace, and a vector of Euclidean norm 1 otherwise.
C8_ZeroForBlankUnitOtherwise ==
    ret.op = "generateSimpleEmbedding"
        => IF IsBlank(ret.text)
           THEN IsZeroVector(ret.embedding)
           ELSE ~IsZeroVector(ret.embedding) /\ HasUnitNorm(ret.embedding)

\* C9: calculateSimpleSimilarity(query, document) is the fraction of the
\* query's lower-cased whitespace-split tokens that occur among the document's,
\* lies in [0,1], and is 0 whenever the query is empty or only whitespace.
C9_FractionOfQueryTokens ==
    ret.op = "calculateSimpleSimilarity"
        => LET q == SplitWhitespace(ToLowerCase(ret.query))
               d == SplitWhitespace(ToLowerCase(ret.document))
               n == Cardinality({k \in 1..Len(q) : \E l \in 1..Len(d) : d[l] = q[k]})
           IN  /\ ret.fraction[1] * Len(q) = n * ret.fraction[2]
               /\ 0 <= ret.fraction[1] /\ ret.fraction[1] <= ret.fraction[2]
               /\ IsBlank(ret.query) => ret.fraction[1] = 0

-----------------------------------------------------------------------------
(* Context generation: rag.ts:215-223 *)

\* the longest list of documents handed to generateContext
MaxListed == 3

NEWLINE == 10

\* String(n) of a non-negative integer: its decimal digits
RECURSIVE Digits(_)
Digits(n) == IF n < 10 THEN <<48 + n>> ELSE Digits(n \div 10) \o <<48 + (n % 10)>>

\* s.startsWith(p)
StartsWith(s, p) == Len(s) >= Len(p) /\ SubSeq(s, 1, Len(p)) = p

\* s with its first n code units dropped
DropFirst(s, n) == SubSeq(s, n + 1, Len(s))

\* the '\n\n---\n\n' given to join
ContextSeparator == <<NEWLINE, NEWLINE, 45, 45, 45, NEWLINE, NEWLINE>>

\* `Document ${index + 1} (${doc.title}):\n${doc.content}`, index counted from 0
ContextBlock(doc, index) ==
    <<68, 111, 99, 117, 109, 101, 110, 116, 32>>        \* "Document "
        \o Digits(index + 1) \o <<32, 40>>              \* " ("
        \o doc.title \o <<41, 58, NEWLINE>>             \* "):\n"
        \o doc.content

RECURSIVE JoinTrailing(_, _)
RECURSIVE Join(_, _)

\* parts.join(separator) with a separator after every part, the last included
JoinTrailing(parts, separator) ==
    IF parts = <<>> THEN <<>>
    ELSE parts[1] \o separator \o JoinTrailing(Tail(parts), separator)

\* parts.join(separator)
Join(parts, separator) ==
    IF parts = <<>> THEN <<>>
    ELSE IF Len(parts) = 1 THEN parts[1]
    ELSE parts[1] \o separator \o Join(Tail(parts), separator)

\* rag.ts:215-223
generateContext(docs) ==
    IF Len(docs) = 0 THEN <<>>
    ELSE LET context == Join([i \in 1..Len(docs) |-> ContextBlock(docs[i], i - 1)],
                             ContextSeparator)
         IN  <<67, 111, 110, 116, 101, 120, 116, 32, 102, 114, 111, 109, 32>>  \* "Context from "
                 \o Digits(Len(docs))
                 \o <<32, 114, 101, 108, 101, 118, 97, 110, 116, 32, 100, 111, 99,
                      117, 109, 101, 110, 116, 40, 115, 41, 58>>   \* " relevant document(s):"
                 \o <<NEWLINE, NEWLINE>> \o context

\* the retrieved documents generateContext is called with
ContextDocs ==
    [title : {<<65>>, <<97, 32, 98>>}, content : {<<97>>, <<98, NEWLINE, 45, 45, 45>>, <<>>}]

RECURSIVE ListsUpTo(_, _)
ListsUpTo(S, n) ==
    IF n = 0 THEN {<<>>}
    ELSE LET shorter == ListsUpTo(S, n - 1)
         IN  shorter \cup {Append(l, x) : l \in {k \in shorter : Len(k) = n - 1}, x \in S}

\* a direct call of generateContext
CallGenerateContext(docs) ==
    /\ ret' = [op |-> "generateContext", docs |-> docs, context |-> generateContext(docs)]
    /\ UNCHANGED <<config, documents, now, issued, addCount, insertedAt>>
    /\ UNCHANGED screenVars

InitContext ==
    InitWith(StoreConfigs, {[op |-> "contextInput", docs |-> l] : l \in ListsUpTo(ContextDocs, MaxListed)})

NextContext == ret.op = "contextInput" /\ CallGenerateContext(ret.docs)

SpecContext == InitContext /\ [][NextContext]_vars

\* the text left of s after the prefix p, or the marker <<-1>> when s does not
\* start with p
After(s, p) == IF s # <<-1>> /\ StartsWith(s, p) THEN DropFirst(s, Len(p)) ELSE <<-1>>

\* the text left after reading, from the front of s, the blocks of docs from
\* the i-th on, a separator line before every block but the first
RECURSIVE AfterBlocks(_, _, _)
AfterBlocks(s, docs, i) ==
    IF i > Len(docs) THEN s
    ELSE LET start == IF i = 1 THEN s ELSE After(s, <<NEWLINE, NEWLINE, 45, 45, 45, NEWLINE, NEWLINE>>)
             head  == <<68, 111, 99, 117, 109, 101, 110, 116, 32>> \o Digits(i) \o <<32, 40>>
                         \o docs[i].title \o <<41, 58, NEWLINE>> \o docs[i].content
         IN  AfterBlocks(After(start, head), docs, i + 1)

\* C11: generateContext returns the empty string for an empty list; for N >= 1
\* documents it returns the header "Context from N relevant document(s):", a
\* blank line, and then exactly the N blocks "Document i (<title>):\n<content>"
\* numbered 1..N in input order, a line "---" between blank lines between
\* consecutive blocks and nothing after the last block.
C11_HeaderThenNumberedBlocks ==
    ret.op = "generateContext"
        => LET N == Len(ret.docs)
               header == <<67, 111, 110, 116, 101, 120, 116, 32, 102, 114, 111, 109, 32>>
                             \o Digits(N)
                             \o <<32, 114, 101, 108, 101, 118, 97, 110, 116, 32, 100, 111, 99,
                                  117, 109, 101, 110, 116, 40, 115, 41, 58, NEWLINE, NEWLINE>>
           IN  IF N = 0 THEN ret.context = <<>>
               ELSE AfterBlocks(After(ret.context, header), ret.docs, 1) = <<>>

\* a context of three documents has been generated
C11_Witness ==
    /\ ret.op = "generateContext"
    /\ Len(ret.docs) = 3
    /\ ret.docs[1] # ret.docs[2]
    /\ Len(ret.context) > 0

-----------------------------------------------------------------------------
(* File utilities: fileUtils.ts *)

\* 10 * 1024 * 1024 bytes
MAX_FILE_SIZE == 10 * 1024 * 1024

DOT == 46

\* s.includes(sub)
Includes(s, sub) ==
    \E i \in 0..(Len(s) - Len(sub)) : SubSeq(s, i + 1, i + Len(sub)) = sub

\* s.split(sep) for a separator of one code unit: "" yields <<"">>
RECURSIVE SplitOnFrom(_, _, _, _, _)
SplitOnFrom(s, sep, i, cur, done) ==
    IF i > Len(s) THEN Append(done, cur)
    ELSE IF s[i] = sep THEN SplitOnFrom(s, sep, i + 1, <<>>, Append(done, cur))
    ELSE SplitOnFrom(s, sep, i + 1, Append(cur, s[i]), done)

SplitOn(s, sep) == SplitOnFrom(s, sep, 1, <<>>, <<>>)

\* Array.prototype.pop of a non-empty array: its last element
Pop(a) == a[Len(a)]

\* a regular expression ^prefix(alt|alt|...) that is anchored at the end too
\* when exact: TEXT_FILE_PATTERNS, fileUtils.ts:11-19
TEXT_FILE_PATTERNS ==
    << \* /^text\//
       [prefix |-> <<116, 101, 120, 116, 47>>,
        alts |-> { <<>> },
        exact |-> FALSE],
       \* /^application\/(javascript|json|xml|yaml)$/
       [prefix |-> <<97, 112, 112, 108, 105, 99, 97, 116, 105, 111, 110, 47>>,
        alts |-> { <<106, 97, 118, 97, 115, 99, 114, 105, 112, 116>>,
                   <<106, 115, 111, 110>>,
                   <<120, 109, 108>>,
                   <<121, 97, 109, 108>> },
        exact |-> TRUE],
       \* /^application\/x-(python|java|c|cpp|csharp|php|ruby|perl|shell|sh)$/
       [prefix |-> <<97, 112, 112, 108, 105, 99, 97, 116, 105, 111, 110, 47, 120, 45>>,
        alts |-> { <<112, 121, 116, 104, 111, 110>>,
                   <<106, 97, 118, 97>>,
                   <<99>>,
                   <<99, 112, 112>>,
                   <<99, 115, 104, 97, 114, 112>>,
                   <<112, 104, 112>>,
                   <<114, 117, 98, 121>>,
                   <<112, 101, 114, 108>>,
                   <<115, 104, 101, 108, 108>>,
                   <<115, 104>> },
        exact |-> TRUE],
       \* /^application\/(toml|ini)$/
       [prefix |-> <<97, 112, 112, 108, 105, 99, 97, 116, 105, 111, 110, 47>>,
        alts |-> { <<116, 111, 109, 108>>,
                   <<105, 110, 105>> },
        exact |-> TRUE] >>

\* pattern.test(mimeType)
Test(pattern, mimeType) ==
    \E alt \in pattern.alts :
        IF pattern.exact THEN mimeType = pattern.prefix \o alt
        ELSE StartsWith(mimeType, pattern.prefix \o alt)

\* fileUtils.ts:24-26
isTextMimeType(mimeType) ==
    \E k \in 1..Len(TEXT_FILE_PATTERNS) : Test(TEXT_FILE_PATTERNS[k], mimeType)

\* the table of getMimeTypeFromExtension, fileUtils.ts:34-114, as pairs of key and value
mimeTypes ==
    { << <<116, 120, 116>>, <<116, 101, 120, 116, 47, 112, 108, 97, 105, 110>> >>,   \* txt: text/plain
      << <<109, 100>>, <<116, 101, 120, 116, 47, 109, 97, 114, 107, 100, 111, 119, 110>> >>,   \* md: text/markdown
      << <<104, 116, 109, 108>>, <<116, 101, 120, 116, 47, 104, 116, 109, 108>> >>,   \* html: text/html
      << <<104, 116, 109>>, <<116, 101, 120, 116, 47, 104, 116, 109, 108>> >>,   \* htm: text/html
      << <<99, 115, 115>>, <<116, 101, 120, 116, 47, 99, 115, 115>> >>,   \* css: text/css
      << <<99, 115, 118>>, <<116, 101, 120, 116, 47, 99, 115, 118>> >>,   \* csv: text/csv
      << <<114, 116, 102>>, <<116, 101, 120, 116, 47, 114, 116, 102>> >>,   \* rtf: text/rtf
      << <<106, 115>>, <<97, 112, 112, 108, 105, 99, 97, 116, 105, 111, 110, 47, 106, 97, 118, 97, 115, 99, 114, 105, 112, 116>> >>,   \* js: application/javascript
      << <<109, 106, 115>>, <<97, 112, 112, 108, 105, 99, 97, 116, 105, 111, 110, 47, 106, 97, 118, 97, 115, 99, 114, 105, 112, 116>> >>,   \* mjs: application/javascript
      << <<106, 115, 111, 110>>, <<97, 112, 112, 108, 105, 99, 97, 116, 105, 111, 110, 47, 106, 115, 111, 110>> >>,   \* json: application/json
      << <<112, 121>>, <<116, 101, 120, 116, 47, 120, 45, 112, 121, 116, 104, 111, 110>> >>,   \* py: text/x-python
      << <<106, 97, 118, 97>>, <<116, 101, 120, 116, 47, 120, 45, 106, 97, 118, 97>> >>,   \* java: text/x-java
      << <<99>>, <<116, 101, 120, 116, 47, 120, 45, 99>> >>,   \* c: text/x-c
      << <<99, 112, 112>>, <<116, 101, 120, 116, 47, 120, 45, 99, 43, 43>> >>,   \* cpp: text/x-c++
      << <<99, 99>>, <<116, 101, 120, 116, 47, 120, 45, 99, 43, 43>> >>,   \* cc: text/x-c++
      << <<99, 120, 120>>, <<116, 101, 120, 116, 47, 120, 45, 99, 43, 43>> >>,   \* cxx: text/x-c++
      << <<104>>, <<116, 101, 120, 116, 47, 120, 45, 99>> >>,   \* h: text/x-c
      << <<104, 112, 112>>, <<116, 101, 120, 116, 47, 120, 45, 99, 43, 43>> >>,   \* hpp: text/x-c++
      << <<99, 115>>, <<116, 101, 120, 116, 47, 120, 45, 99, 115, 104, 97, 114, 112>> >>,   \* cs: text/x-csharp
      << <<112, 104, 112>>, <<116, 101, 120, 116, 47, 120, 45, 112, 104, 112>> >>,   \* php: text/x-php
      << <<114, 98>>, <<116, 101, 120, 116, 47, 120, 45, 114, 117, 98, 121>> >>,   \* rb: text/x-ruby
      << <<112, 108>>, <<116, 101, 120, 116, 47, 120, 45, 112, 101, 114, 108>> >>,   \* pl: text/x-perl
      << <<115, 104>>, <<97, 112, 112, 108, 105, 99, 97, 116, 105, 111, 110, 47, 120, 45, 115, 104>> >>,   \* sh: application/x-sh
      << <<98, 97, 115, 104>>, <<97, 112, 112, 108, 105, 99, 97, 116, 105, 111, 110, 47, 120, 45, 115, 104>> >>,   \* bash: application/x-sh
      << <<122, 115, 104>>, <<97, 112, 112, 108, 105, 99, 97, 116, 105, 111, 110, 47, 120, 45, 115, 104>> >>,   \* zsh: application/x-sh
      << <<102, 105, 115, 104>>, <<97, 112, 112, 108, 105, 99, 97, 116, 105, 111, 110, 47, 120, 45, 115, 104>> >>,   \* fish: application/x-sh
      << <<115, 113, 108>>, <<116, 101, 120, 116, 47, 120, 45, 115, 113, 108>> >>,   \* sql: text/x-sql
      << <<120, 109, 108>>, <<97, 112, 112, 108, 105, 99, 97, 116, 105, 111, 110, 47, 120, 109, 108>> >>,   \* xml: application/xml
      << <<121, 97, 109, 108>>, <<97, 112, 112, 108, 105, 99, 97, 116, 105, 111, 110, 47, 121, 97, 109, 108>> >>,   \* yaml: application/yaml
      << <<121, 109, 108>>, <<97, 112, 112, 108, 105, 99, 97, 116, 105, 111, 110, 47, 121, 97, 109, 108>> >>,   \* yml: application/yaml
      << <<116, 111, 109, 108>>, <<97, 112, 112, 108, 105, 99, 97, 116, 105, 111, 110, 47, 116, 111, 109, 108>> >>,   \* toml: application/toml
      << <<105, 110, 105>>, <<116, 101, 120, 116, 47, 112, 108, 97, 105, 110>> >>,   \* ini: text/plain
      << <<99, 102, 103>>, <<116, 101, 120, 116, 47, 112, 108, 97, 105, 110>> >>,   \* cfg: text/plain
      << <<99, 111, 110, 102>>, <<116, 101, 120, 116, 47, 112, 108, 97, 105, 110>> >>,   \* conf: text/plain
      << <<108, 111, 103>>, <<116, 101, 120, 116, 47, 112, 108, 97, 105, 110>> >>,   \* log: text/plain
      << <<116, 115>>, <<97, 112, 112, 108, 105, 99, 97, 116, 105, 111, 110, 47, 116, 121, 112, 101, 115, 99, 114, 105, 112, 116>> >>,   \* ts: application/typescript
      << <<116, 115, 120>>, <<97, 112, 112, 108, 105, 99, 97, 116, 105, 111, 110, 47, 116, 121, 112, 101, 115, 99, 114, 105, 112, 116>> >>,   \* tsx: application/typescript
      << <<115, 118, 103>>, <<105, 109, 97, 103, 101, 47, 115, 118, 103, 43, 120, 109, 108>> >>,   \* svg: image/svg+xml
      << <<106, 112, 103>>, <<105, 109, 97, 103, 101, 47, 106, 112, 101, 103>> >>,   \* jpg: image/jpeg
      << <<106, 112, 101, 103>>, <<105, 109, 97, 103, 101, 47, 106, 112, 101, 103>> >>,   \* jpeg: image/jpeg
      << <<112, 110, 103>>, <<105, 109, 97, 103, 101, 47, 112, 110, 103>> >>,   \* png: image/png
      << <<103, 105, 102>>, <<105, 109, 97, 103, 101, 47, 103, 105, 102>> >>,   \* gif: image/gif
      << <<119, 101, 98, 112>>, <<105, 109, 97, 103, 101, 47, 119, 101, 98, 112>> >>,   \* webp: image/webp
      << <<98, 109, 112>>, <<105, 109, 97, 103, 101, 47, 98, 109, 112>> >>,   \* bmp: image/bmp
      << <<105, 99, 111>>, <<105, 109, 97, 103, 101, 47, 120, 45, 105, 99, 111, 110>> >>,   \* ico: image/x-icon
      << <<112, 100, 102>>, <<97, 112, 112, 108, 105, 99, 97, 116, 105, 111, 110, 47, 112, 100, 102>> >>,   \* pdf: application/pdf
      << <<100, 111, 99>>, <<97, 112, 112, 108, 105, 99, 97, 116, 105, 111, 110, 47, 109, 115, 119, 111, 114, 100>> >>,   \* doc: application/msword
      << <<100, 111, 99, 120>>, <<97, 112, 112, 108, 105, 99, 97, 116, 105, 111, 110, 47, 118, 110, 100, 46, 111, 112, 101, 110, 120, 109, 108, 102, 111, 114, 109, 97, 116, 115, 45, 111, 102, 102, 105, 99, 101, 100, 111, 99, 117, 109, 101, 110, 116, 46, 119, 111, 114, 100, 112, 114, 111, 99, 101, 115, 115, 105, 110, 103, 109, 108, 46, 100, 111, 99, 117, 109, 101, 110, 116>> >>,   \* docx: application/vnd.openxmlformats-officedocument.wordprocessingml.document
      << <<120, 108, 115>>, <<97, 112, 112, 108, 105, 99, 97, 116, 105, 111, 110, 47, 118, 110, 100, 46, 109, 115, 45, 101, 120, 99, 101, 108>> >>,   \* xls: application/vnd.ms-excel
      << <<120, 108, 115, 120>>, <<97, 112, 112, 108, 105, 99, 97, 116, 105, 111, 110, 47, 118, 110, 100, 46, 111, 112, 101, 110, 120, 109, 108, 102, 111, 114, 109, 97, 116, 115, 45, 111, 102, 102, 105, 99, 101, 100, 111, 99, 117, 109, 101, 110, 116, 46, 115, 112, 114, 101, 97, 100, 115, 104, 101, 101, 116, 109, 108, 46, 115, 104, 101, 101, 116>> >>,   \* xlsx: application/vnd.openxmlformats-officedocument.spreadsheetml.sheet
      << <<112, 112, 116>>, <<97, 112, 112, 108, 105, 99, 97, 116, 105, 111, 110, 47, 118, 110, 100, 46, 109, 115, 45, 112, 111, 119, 101, 114, 112, 111, 105, 110, 116>> >>,   \* ppt: application/vnd.ms-powerpoint
      << <<112, 112, 116, 120>>, <<97, 112, 112, 108, 105, 99, 97, 116, 105, 111, 110, 47, 118, 110, 100, 46, 111, 112, 101, 110, 120, 109, 108, 102, 111, 114, 109, 97, 116, 115, 45, 111, 102, 102, 105, 99, 101, 100, 111, 99, 117, 109, 101, 110, 116, 46, 112, 114, 101, 115, 101, 110, 116, 97, 116, 105, 111, 110, 109, 108, 46, 112, 114, 101, 115, 101, 110, 116, 97, 116, 105, 111, 110>> >>,   \* pptx: application/vnd.openxmlformats-officedocument.presentationml.presentation
      << <<122, 105, 112>>, <<97, 112, 112, 108, 105, 99, 97, 116, 105, 111, 110, 47, 122, 105, 112>> >>,   \* zip: application/zip
      << <<114, 97, 114>>, <<97, 112, 112, 108, 105, 99, 97, 116, 105, 111, 110, 47, 120, 45, 114, 97, 114, 45, 99, 111, 109, 112, 114, 101, 115, 115, 101, 100>> >>,   \* rar: application/x-rar-compressed
      << <<55, 122>>, <<97, 112, 112, 108, 105, 99, 97, 116, 105, 111, 110, 47, 120, 45, 55, 122, 45, 99, 111, 109, 112, 114, 101, 115, 115, 101, 100>> >>,   \* 7z: application/x-7z-compressed
      << <<116, 97, 114>>, <<97, 112, 112, 108, 105, 99, 97, 116, 105, 111, 110, 47, 120, 45, 116, 97, 114>> >>,   \* tar: application/x-tar
      << <<103, 122>>, <<97, 112, 112, 108, 105, 99, 97, 116, 105, 111, 110, 47, 103, 122, 105, 112>> >>,   \* gz: application/gzip
      << <<109, 112, 51>>, <<97, 117, 100, 105, 111, 47, 109, 112, 101, 103>> >>,   \* mp3: audio/mpeg
      << <<119, 97, 118>>, <<97, 117, 100, 105, 111, 47, 119, 97, 118>> >>,   \* wav: audio/wav
      << <<111, 103, 103>>, <<97, 117, 100, 105, 111, 47, 111, 103, 103>> >>,   \* ogg: audio/ogg
      << <<109, 112, 52>>, <<118, 105, 100, 101, 111, 47, 109, 112, 52>> >>,   \* mp4: video/mp4
      << <<97, 118, 105>>, <<118, 105, 100, 101, 111, 47, 120, 45, 109, 115, 118, 105, 100, 101, 111>> >>,   \* avi: video/x-msvideo
      << <<109, 111, 118>>, <<118, 105, 100, 101, 111, 47, 113, 117, 105, 99, 107, 116, 105, 109, 101>> >>,   \* mov: video/quicktime
      << <<119, 101, 98, 109>>, <<118, 105, 100, 101, 111, 47, 119, 101, 98, 109>> >> }   \* webm: video/webm

OCTET_STREAM == <<97, 112, 112, 108, 105, 99, 97, 116, 105, 111, 110, 47, 111, 99, 116, 101, 116, 45, 115, 116, 114, 101, 97, 109>>   \* application/octet-stream

\* filename.split('.').pop()?.toLowerCase(): the whole name when it has no '.'
ExtensionOf(filename) == ToLowerCase(Pop(SplitOn(filename, DOT)))

\* fileUtils.ts:31-117
getMimeTypeFromExtension(filename) ==
    LET ext == ExtensionOf(filename)
    IN  IF \E e \in mimeTypes : e[1] = ext
        THEN (CHOOSE e \in mimeTypes : e[1] = ext)[2]
        ELSE OCTET_STREAM

\* fileUtils.ts:124-129
textExtensions ==
    { <<116, 120, 116>>, <<109, 100>>, <<104, 116, 109, 108>>, <<104, 116, 109>>,   \* txt md html htm
      <<99, 115, 115>>, <<99, 115, 118>>, <<114, 116, 102>>, <<106, 115>>,   \* css csv rtf js
      <<109, 106, 115>>, <<106, 115, 111, 110>>, <<112, 121>>, <<106, 97, 118, 97>>,   \* mjs json py java
      <<99>>, <<99, 112, 112>>, <<99, 99>>, <<99, 120, 120>>,   \* c cpp cc cxx
      <<104>>, <<104, 112, 112>>, <<99, 115>>, <<112, 104, 112>>,   \* h hpp cs php
      <<114, 98>>, <<112, 108>>, <<115, 104>>, <<98, 97, 115, 104>>,   \* rb pl sh bash
      <<122, 115, 104>>, <<102, 105, 115, 104>>, <<115, 113, 108>>, <<120, 109, 108>>,   \* zsh fish sql xml
      <<121, 97, 109, 108>>, <<121, 109, 108>>, <<116, 111, 109, 108>>, <<105, 110, 105>>,   \* yaml yml toml ini
      <<99, 102, 103>>, <<99, 111, 110, 102>>, <<108, 111, 103>>, <<116, 115>>,   \* cfg conf log ts
      <<116, 115, 120>> }   \* tsx

\* fileUtils.ts:122-131
isTextFileExtension(filename) == ExtensionOf(filename) \in textExtensions

\* floor(log(bytes) / log(1024)) of a positive integer
RECURSIVE Log1024(_)
Log1024(bytes) == IF bytes < 1024 THEN 0 ELSE 1 + Log1024(bytes \div 1024)

RECURSIVE Pow1024(_)
Pow1024(i) == IF i = 0 THEN 1 ELSE 1024 * Pow1024(i - 1)

\* (bytes / p).toFixed(1) in tenths: the nearest tenth, the larger one on a tie
ToFixed1(bytes, p) ==
    (bytes \div p) * 10 + (IF p = 1 THEN 0 ELSE ((bytes % p) * 10 + p \div 2) \div p)

\* String(parseFloat(s)) for s = toFixed(1) of tenths: a trailing ".0" is gone
ParseFloatString(tenths) ==
    IF tenths % 10 = 0 THEN Digits(tenths \div 10)
    ELSE Digits(tenths \div 10) \o <<DOT, 48 + (tenths % 10)>>

\* ['B', 'KB', 'MB', 'GB']
sizes == << <<66>>, <<75, 66>>, <<77, 66>>, <<71, 66>> >>

\* sizes[i] of a JavaScript array, i counted from 0, in string concatenation
SizeSuffix(i) ==
    IF i < Len(sizes) THEN sizes[i + 1]
    ELSE <<117, 110, 100, 101, 102, 105, 110, 101, 100>>   \* "undefined"

\* fileUtils.ts:227-235
formatFileSize(bytes) ==
    IF bytes = 0 THEN <<48, SPACE, 66>>   \* "0 B"
    ELSE LET i == Log1024(bytes)
         IN  ParseFloatString(ToFixed1(bytes, Pow1024(i))) \o <<SPACE>> \o SizeSuffix(i)

\* the substring rules with the spreadsheet rule ahead of the document rule
CategoryRulesSheetFirst ==
    << [words |-> {<<112, 100, 102>>}, category |-> "PDF"],
       [words |-> {<<115, 104, 101, 101, 116>>, <<101, 120, 99, 101, 108>>},
        category |-> "Spreadsheet"],
       [words |-> {<<119, 111, 114, 100>>, <<100, 111, 99, 117, 109, 101, 110, 116>>},
        category |-> "Document"],
       [words |-> {<<112, 114, 101, 115, 101, 110, 116, 97, 116, 105, 111, 110>>,
                   <<112, 111, 119, 101, 114, 112, 111, 105, 110, 116>>},
        category |-> "Presentation"],
       [words |-> {<<122, 105, 112>>, <<97, 114, 99, 104, 105, 118, 101>>,
                   <<99, 111, 109, 112, 114, 101, 115, 115, 101, 100>>},
        category |-> "Archive"] >>

\* the rules of getFileCategory after the MIME prefix rules, in source order:
\* the substrings looked for and the category returned, fileUtils.ts:245-249
CategoryRules ==
    << [words |-> {<<112, 100, 102>>}, category |-> "PDF"],             \* pdf
       [words |-> {<<119, 111, 114, 100>>,                              \* word
                   <<100, 111, 99, 117, 109, 101, 110, 116>>},          \* document
        category |-> "Document"],
       [words |-> {<<115, 104, 101, 101, 116>>,                         \* sheet
                   <<101, 120, 99, 101, 108>>},                         \* excel
        category |-> "Spreadsheet"],
       [words |-> {<<112, 114, 101, 115, 101, 110, 116, 97, 116, 105, 111, 110>>,   \* presentation
                   <<112, 111, 119, 101, 114, 112, 111, 105, 110, 116>>},           \* powerpoint
        category |-> "Presentation"],
       [words |-> {<<122, 105, 112>>,                                   \* zip
                   <<97, 114, 99, 104, 105, 118, 101>>,                 \* archive
                   <<99, 111, 109, 112, 114, 101, 115, 115, 101, 100>>},            \* compressed
        category |-> "Archive"] >>

\* the category of the first rule from the k-th on with a word in mimeType
RECURSIVE FirstIncluded(_, _)
FirstIncluded(mimeType, k) ==
    IF k > Len(CategoryRules) THEN "File"
    ELSE IF \E word \in CategoryRules[k].words : Includes(mimeType, word)
         THEN CategoryRules[k].category
         ELSE FirstIncluded(mimeType, k + 1)

\* fileUtils.ts:240-251
getFileCategory(mimeType) ==
    IF StartsWith(mimeType, <<105, 109, 97, 103, 101, 47>>) THEN "Image"        \* image/
    ELSE IF StartsWith(mimeType, <<118, 105, 100, 101, 111, 47>>) THEN "Video"  \* video/
    ELSE IF StartsWith(mimeType, <<97, 117, 100, 105, 111, 47>>) THEN "Audio"   \* audio/
    ELSE IF StartsWith(mimeType, <<116, 101, 120, 116, 47>>) \/ isTextMimeType(mimeType)
         THEN "Text"                                                            \* text/
    ELSE FirstIncluded(mimeType, 1)
\* the MIME types getFileCategory is called with: the values of the table and
\* application/octet-stream (ChatScreen: file.type || 'application/octet-stream'),
\* "", application/x-sh, application/toml, model/gltf, application/x-7z-compressed
CategoryInputs ==
    {e[2] : e \in mimeTypes}
        \cup { OCTET_STREAM, <<>>,
               <<97, 112, 112, 108, 105, 99, 97, 116, 105, 111, 110, 47, 120, 45, 115, 104>>,
               <<97, 112, 112, 108, 105, 99, 97, 116, 105, 111, 110, 47, 116, 111, 109, 108>>,
               <<109, 111, 100, 101, 108, 47, 103, 108, 116, 102>>,
               <<97, 112, 112, 108, 105, 99, 97, 116, 105, 111, 110, 47, 120, 45, 55, 122,
                 45, 99, 111, 109, 112, 114, 101, 115, 115, 101, 100>> }

\* the byte counts formatFileSize is called with
FormatInputs ==
    (0..12) \cup { 512, 1000, 1023, 1024, 1025, 1075, 1076, 1536, 2047, 10240,
                   1048063, 1048524, 1048575, 1048576, 1572864, MAX_FILE_SIZE,
                   1024 * 1024 * 1024 }

\* a direct call of formatFileSize
CallFormatFileSize(bytes) ==
    /\ ret' = [op |-> "formatFileSize", bytes |-> bytes, text |-> formatFileSize(bytes)]
    /\ UNCHANGED <<config, documents, now, issued, addCount, insertedAt>>
    /\ UNCHANGED screenVars

\* a direct call of getFileCategory
CallGetFileCategory(mimeType) ==
    /\ ret' = [op |-> "getFileCategory", mimeType |-> mimeType,
               category |-> getFileCategory(mimeType)]
    /\ UNCHANGED <<config, documents, now, issued, addCount, insertedAt>>
    /\ UNCHANGED screenVars

InitBadge ==
    InitWith(StoreConfigs, {[op |-> "sizeInput", bytes |-> b] : b \in FormatInputs}
                           \cup {[op |-> "typeInput", mimeType |-> m] : m \in CategoryInputs})

NextBadge ==
    \/ ret.op = "sizeInput" /\ CallFormatFileSize(ret.bytes)
    \/ ret.op = "typeInput" /\ CallGetFileCategory(ret.mimeType)

SpecBadge == InitBadge /\ [][NextBadge]_vars

-----------------------------------------------------------------------------
(* Properties of the file utilities *)

\* the largest power of 1024 not exceeding a positive byte count, up to 1024^3
LargestPower(bytes) ==
    CHOOSE p \in {1, 1024, 1024 * 1024, 1024 * 1024 * 1024} :
        p <= bytes /\ bytes \div 1024 < p

\* C18: formatFileSize(0) is "0 B"; for a positive byte count the result is the
\* count divided by the largest power of 1024 not exceeding it, written with
\* one decimal place, a space, and the suffix B, KB, MB or GB of that power;
\* formatFileSize(1536) is "1.5 KB" and formatFileSize(1048576) is "1.0 MB".
C18_OneDecimalAndSuffix ==
    ret.op = "formatFileSize"
        => /\ ret.bytes = 0 => ret.text = <<48, SPACE, 66>>
           /\ ret.bytes > 0 =>
                LET p == LargestPower(ret.bytes)
                    tenths == ToFixed1(ret.bytes, p)
                    suffix == IF p = 1 THEN <<66>>
                              ELSE IF p = 1024 THEN <<75, 66>>
                              ELSE IF p = 1024 * 1024 THEN <<77, 66>>
                              ELSE <<71, 66>>
                IN  ret.text = Digits(tenths \div 10) \o <<DOT, 48 + (tenths % 10), SPACE>>
                                   \o suffix
           /\ ret.bytes = 1536 => ret.text = <<49, DOT, 53, SPACE, 75, 66>>
           /\ ret.bytes = 1048576 => ret.text = <<49, DOT, 48, SPACE, 77, 66>>

\* the same with the decimal place left out when it is 0, as parseFloat does
C18_HoldsWithoutTrailingZero ==
    ret.op = "formatFileSize"
        => /\ ret.bytes = 0 => ret.text = <<48, SPACE, 66>>
           /\ ret.bytes > 0 =>
                LET p == LargestPower(ret.bytes)
                    tenths == ToFixed1(ret.bytes, p)
                    suffix == IF p = 1 THEN <<66>>
                              ELSE IF p = 1024 THEN <<75, 66>>
                              ELSE IF p = 1024 * 1024 THEN <<77, 66>>
                              ELSE <<71, 66>>
                    decimal == IF tenths % 10 = 0 THEN <<>> ELSE <<DOT, 48 + (tenths % 10)>>
                IN  ret.text = Digits(tenths \div 10) \o decimal \o <<SPACE>> \o suffix

\* whether each rule of getFileCategory applies to mimeType, in the order of
\* the source, and the category each rule returns
RuleApplies(mimeType) ==
    << StartsWith(mimeType, <<105, 109, 97, 103, 101, 47>>),
       StartsWith(mimeType, <<118, 105, 100, 101, 111, 47>>),
       StartsWith(mimeType, <<97, 117, 100, 105, 111, 47>>),
       StartsWith(mimeType, <<116, 101, 120, 116, 47>>) \/ isTextMimeType(mimeType),
       Includes(mimeType, <<112, 100, 102>>),
       Includes(mimeType, <<119, 111, 114, 100>>)
           \/ Includes(mimeType, <<100, 111, 99, 117, 109, 101, 110, 116>>),
       Includes(mimeType, <<115, 104, 101, 101, 116>>)
           \/ Includes(mimeType, <<101, 120, 99, 101, 108>>),
       Includes(mimeType, <<112, 114, 101, 115, 101, 110, 116, 97, 116, 105, 111, 110>>)
           \/ Includes(mimeType, <<112, 111, 119, 101, 114, 112, 111, 105, 110, 116>>),
       Includes(mimeType, <<122, 105, 112>>)
           \/ Includes(mimeType, <<97, 114, 99, 104, 105, 118, 101>>)
           \/ Includes(mimeType, <<99, 111, 109, 112, 114, 101, 115, 115, 101, 100>>) >>

RuleCategory ==
    <<"Image", "Video", "Audio", "Text", "PDF", "Document", "Spreadsheet", "Presentation",
      "Archive">>

\* C19: getFileCategory returns the category of the first rule that applies,
\* in the order image/, video/, audio/, text, pdf, word|document, sheet|excel,
\* presentation|powerpoint, zip|archive|compressed, and "File" when none
\* applies; image/png is "Image", application/pdf is "PDF" and
\* application/octet-stream is "File".
C19_FirstMatchingRule ==
    ret.op = "getFileCategory"
        => LET applies == RuleApplies(ret.mimeType)
               hits == {k \in 1..Len(applies) : applies[k]}
           IN  /\ hits = {} => ret.category = "File"
               /\ \A k \in hits : (\A j \in hits : k <= j) => ret.category = RuleCategory[k]
               /\ ret.mimeType = <<105, 109, 97, 103, 101, 47, 112, 110, 103>>
                      => ret.category = "Image"
               /\ ret.mimeType = <<97, 112, 112, 108, 105, 99, 97, 116, 105, 111, 110, 47,
                                   112, 100, 102>>
                      => ret.category = "PDF"
               /\ ret.mimeType = OCTET_STREAM => ret.category = "File"

\* the MIME type of .xlsx, to which the document rule and the spreadsheet rule
\* both apply, has been categorised
C19_Witness ==
    /\ ret.op = "getFileCategory"
    /\ RuleApplies(ret.mimeType)[6] /\ RuleApplies(ret.mimeType)[7]
    /\ ret.category = "Document"

-----------------------------------------------------------------------------
(* processFile: fileUtils.ts:136-222 *)

\* the value JavaScript gives for an array element that is not there
UNDEFINED == <<-1>>

\* the 64 characters of base64: A-Z, a-z, 0-9, '+', '/'
Base64Char(i) ==
    IF i < 26 THEN 65 + i
    ELSE IF i < 52 THEN 97 + (i - 26)
    ELSE IF i < 62 THEN 48 + (i - 52)
    ELSE IF i = 62 THEN 43 ELSE 47

\* the base64 text of a sequence of bytes, padded with '='
RECURSIVE Base64(_)
Base64(bytes) ==
    IF Len(bytes) = 0 THEN <<>>
    ELSE IF Len(bytes) = 1
         THEN <<Base64Char(bytes[1] \div 4), Base64Char((bytes[1] % 4) * 16), 61, 61>>
    ELSE IF Len(bytes) = 2
         THEN <<Base64Char(bytes[1] \div 4),
                Base64Char((bytes[1] % 4) * 16 + bytes[2] \div 16),
                Base64Char((bytes[2] % 16) * 4), 61>>
    ELSE <<Base64Char(bytes[1] \div 4),
           Base64Char((bytes[1] % 4) * 16 + bytes[2] \div 16),
           Base64Char((bytes[2] % 16) * 4 + bytes[3] \div 64),
           Base64Char(bytes[3] % 64)>> \o Base64(SubSeq(bytes, 4, Len(bytes)))

\* what FileReader.readAsDataURL delivers: "data:<type>;base64,<payload>"
DataURL(file) ==
    <<100, 97, 116, 97, 58>>                                        \* "data:"
        \o (IF file.type = <<>> THEN OCTET_STREAM ELSE file.type)
        \o <<59, 98, 97, 115, 101, 54, 52, 44>>                     \* ";base64,"
        \o Base64(file.content)

\* the events a FileReader can deliver for a read of file: load with the
\* result, or error
TextEvents(file) == {[kind |-> "load", result |-> file.content], [kind |-> "error"]}

DataEvents(file) == {[kind |-> "load", result |-> DataURL(file)], [kind |-> "error"]}

\* if (event.target?.result): a string is truthy unless it is empty
Truthy(s) == s # <<>>

\* a[i] of a JavaScript array, i counted from 0
At(a, i) == IF i < Len(a) THEN a[i + 1] ELSE UNDEFINED

Resolved(value) == [status |-> "resolved", value |-> value]

Rejected(message) == [status |-> "rejected", message |-> message]

\* fileUtils.ts:136-152: the promise settled by the reader's event
readFileAsBase64(event) ==
    IF event.kind = "error" THEN Rejected("File reading error")
    ELSE IF Truthy(event.result) THEN Resolved(At(SplitOn(event.result, 44), 1))
    ELSE Rejected("Failed to read file")

\* fileUtils.ts:157-170
readFileAsText(event) ==
    IF event.kind = "error" THEN Rejected("File reading error")
    ELSE IF Truthy(event.result) THEN Resolved(event.result)
    ELSE Rejected("Failed to read file")

TooLargeAtLimit(file) == file.size >= MAX_FILE_SIZE

\* fileUtils.ts:177
TooLarge(file) == file.size > MAX_FILE_SIZE

\* the template literal of fileUtils.ts:178, part by part; the number is
\* Math.round(MAX_FILE_SIZE / 1024 / 1024)
TooLargeError(file) ==
    <<"File \"", file.name, "\" is too large. Maximum size is ",
      MAX_FILE_SIZE \div (1024 * 1024), "MB.">>

ProcessErrorUnknown(file, error) ==
    <<"Failed to process file \"", file.name, "\": ", "Unknown error">>

\* the template literal of fileUtils.ts:220, part by part
ProcessError(file, error) ==
    <<"Failed to process file \"", file.name, "\": ", error.message>>

\* fileUtils.ts:182
ResolveMimeType(file) ==
    IF file.type # <<>> THEN file.type ELSE getMimeTypeFromExtension(file.name)

\* fileUtils.ts:183
ClassifyText(file) ==
    isTextMimeType(ResolveMimeType(file)) \/ isTextFileExtension(file.name)

\* fileUtils.ts:190-194
TextFileExtra(file, content) ==
    [type |-> "textFile", name |-> file.name, content |-> content]

FileExtraNeverText(file, mimeType, content, isText) ==
    [type |-> "file", name |-> file.name, mimeType |-> mimeType, size |-> file.size,
     content |-> content, isText |-> FALSE]

\* fileUtils.ts:198-205 and 210-217
FileExtra(file, mimeType, content, isText) ==
    [type |-> "file", name |-> file.name, mimeType |-> mimeType, size |-> file.size,
     content |-> content, isText |-> isText]

\* fileUtils.ts:175-222: the promise processFile returns when the reader
\* delivers textEvent for a text read and dataEvent for a base64 read, and the
\* reads it has started
processFile(file, textEvent, dataEvent) ==
    IF TooLarge(file) THEN Spread(Rejected(TooLargeError(file)), [reads |-> <<>>])
    ELSE LET mimeType == ResolveMimeType(file)
             isText == ClassifyText(file)
             text == readFileAsText(textEvent)
             base64 == readFileAsBase64(dataEvent)
         IN  IF isText /\ text.status = "resolved"
             THEN Spread(Resolved(TextFileExtra(file, text.value)),
                         [reads |-> <<"readAsText">>])
             ELSE Spread(IF base64.status = "resolved"
                         THEN Resolved(FileExtra(file, mimeType, base64.value, isText))
                         ELSE Rejected(ProcessError(file, base64)),
                         [reads |-> IF isText THEN <<"readAsText", "readAsDataURL">>
                                    ELSE <<"readAsDataURL">>])
\* file names: n.txt, a.PNG, txt, data.bin, README, x.tar.gz, sh, run.sh, a.
FileNames ==
    { <<110, 46, 116, 120, 116>>, <<97, 46, 80, 78, 71>>, <<116, 120, 116>>,
      <<100, 97, 116, 97, 46, 98, 105, 110>>, <<82, 69, 65, 68, 77, 69>>,
      <<120, 46, 116, 97, 114, 46, 103, 122>>, <<115, 104>>,
      <<114, 117, 110, 46, 115, 104>>, <<97, 46>> }

\* declared types: none, text/plain, image/png, application/json,
\* application/octet-stream
FileTypes ==
    { <<>>, <<116, 101, 120, 116, 47, 112, 108, 97, 105, 110>>,
      <<105, 109, 97, 103, 101, 47, 112, 110, 103>>,
      <<97, 112, 112, 108, 105, 99, 97, 116, 105, 111, 110, 47, 106, 115, 111, 110>>,
      OCTET_STREAM }

\* size and content: an empty file, the file "hi", and two files at and just
\* over the size limit, of whose content the model keeps the first two bytes
FileBodies ==
    { [size |-> 0, content |-> <<>>], [size |-> 2, content |-> <<104, 105>>],
      [size |-> MAX_FILE_SIZE, content |-> <<104, 105>>],
      [size |-> MAX_FILE_SIZE + 1, content |-> <<104, 105>>] }

Files ==
    {[name |-> n, type |-> t, size |-> b.size, content |-> b.content] :
        n \in FileNames, t \in FileTypes, b \in FileBodies}

\* a call of processFile with the events its reads meet
ProcessFile(file, textEvent, dataEvent) ==
    /\ ret' = [op |-> "processFile", file |-> file, textEvent |-> textEvent,
               dataEvent |-> dataEvent, mimeType |-> ResolveMimeType(file),
               isText |-> ClassifyText(file),
               result |-> processFile(file, textEvent, dataEvent)]
    /\ UNCHANGED <<config, documents, now, issued, addCount, insertedAt>>
    /\ UNCHANGED screenVars

InitFile == InitWith(StoreConfigs, {[op |-> "fileInput", file |-> f] : f \in Files})

NextFile ==
    /\ ret.op = "fileInput"
    /\ \E textEvent \in TextEvents(ret.file), dataEvent \in DataEvents(ret.file) :
           ProcessFile(ret.file, textEvent, dataEvent)

SpecFile == InitFile /\ [][NextFile]_vars

-----------------------------------------------------------------------------
(* Properties of processFile *)

Processed == ret.op = "processFile"

WithinLimit == ret.file.size <= MAX_FILE_SIZE

\* C12: processFile on a file of more than 10 MiB fails with an error that
\* names the file and the limit and starts no text or base64 read; a file of
\* exactly 10 MiB is not rejected for its size.
C12_OversizeRejectedBeforeReading ==
    Processed
        => /\ ret.file.size > 10 * 1024 * 1024
                => /\ ret.result.status = "rejected"
                   /\ ret.result.message[2] = ret.file.name
                   /\ ret.result.message[4] = 10 /\ ret.result.message[5] = "MB."
                   /\ ret.result.reads = <<>>
           /\ ret.file.size = 10 * 1024 * 1024
                => /\ ret.result.reads # <<>>
                   /\ ret.result.status = "rejected"
                          => ret.result.message[1] = "Failed to process file \""

\* a file one byte over the limit has been rejected
C12_Witness ==
    /\ Processed
    /\ ret.file.size = MAX_FILE_SIZE + 1
    /\ ret.result.status = "rejected"

\* a file of exactly the limit has been turned into an attachment
C12_WitnessAtLimit ==
    /\ Processed
    /\ ret.file.size = MAX_FILE_SIZE
    /\ ret.result.status = "resolved"

\* C13: for a file classified as text with ASCII content s, the empty string
\* included, whose reads do not error, processFile returns a text attachment
\* (type 'textFile') whose content is s.
C13_TextRoundTrip ==
    (Processed /\ WithinLimit /\ ret.isText
        /\ ret.textEvent.kind = "load" /\ ret.dataEvent.kind = "load")
        => /\ ret.result.status = "resolved"
           /\ ret.result.value.type = "textFile"
           /\ ret.result.value.content = ret.file.content

\* the same for non-empty content
C13_HoldsForNonEmptyContent ==
    (Processed /\ WithinLimit /\ ret.isText /\ ret.file.content # <<>>
        /\ ret.textEvent.kind = "load" /\ ret.dataEvent.kind = "load")
        => /\ ret.result.status = "resolved"
           /\ ret.result.value.type = "textFile"
           /\ ret.result.value.content = ret.file.content

\* C14: the shape of the result follows from the classification and the
\* outcome of the reads: 'textFile' exactly when the file is classified text
\* and the text read succeeds; 'file' with isText true exactly when it is
\* classified text, the text read fails and the base64 read succeeds; 'file'
\* with isText false exactly when it is classified binary and the base64 read
\* succeeds; a binary file is never read as text.
C14_ShapeFollowsClassificationAndReads ==
    (Processed /\ WithinLimit)
        => LET textOk == readFileAsText(ret.textEvent).status = "resolved"
               dataOk == readFileAsBase64(ret.dataEvent).status = "resolved"
               ok == ret.result.status = "resolved"
           IN  /\ (ok /\ ret.result.value.type = "textFile") <=> (ret.isText /\ textOk)
               /\ (ok /\ ret.result.value.type = "file" /\ ret.result.value.isText)
                      <=> (ret.isText /\ ~textOk /\ dataOk)
               /\ (ok /\ ret.result.value.type = "file" /\ ~ret.result.value.isText)
                      <=> (~ret.isText /\ dataOk)
               /\ ~ret.isText => \A k \in 1..Len(ret.result.reads) :
                                     ret.result.reads[k] # "readAsText"

\* a text file whose text read failed has come back as a base64 attachment
C14_Witness ==
    /\ Processed /\ WithinLimit /\ ret.isText
    /\ ret.textEvent.kind = "error"
    /\ ret.result.status = "resolved"
    /\ ret.result.value.type = "file"

HasDot(filename) == \E i \in 1..Len(filename) : filename[i] = DOT

\* the lower-cased text after the last '.' of a file name that has one
TextAfterLastDot(filename) ==
    LET last == CHOOSE i \in 1..Len(filename) :
                    filename[i] = DOT /\ \A j \in (i + 1)..Len(filename) : filename[j] # DOT
    IN  ToLowerCase(SubSeq(filename, last + 1, Len(filename)))

\* C15: a file is classified as text if and only if its resolved MIME type
\* matches the text pattern set (text/* or the listed application/* subtypes)
\* or its filename extension is in the text-extension allow-list; a file with
\* a binary-looking declared type and an allow-listed extension is text.
C15_TextByMimeOrExtension ==
    (Processed /\ WithinLimit)
        => ret.isText <=> \/ isTextMimeType(ret.mimeType)
                          \/ /\ HasDot(ret.file.name)
                             /\ TextAfterLastDot(ret.file.name) \in textExtensions

\* the same for file names that have a '.'
C15_HoldsForDottedNames ==
    (Processed /\ WithinLimit /\ HasDot(ret.file.name))
        => ret.isText <=> \/ isTextMimeType(ret.mimeType)
                          \/ TextAfterLastDot(ret.file.name) \in textExtensions

\* C16: the MIME type processFile resolves is the file's declared type when
\* that is non-empty; otherwise the lookup-table entry for the filename's
\* extension (the lower-cased text after the last '.'), and
\* application/octet-stream when the filename has no extension or the
\* extension is not in the table.
C16_DeclaredTypeElseExtensionTable ==
    (Processed /\ WithinLimit)
        => ret.mimeType =
               IF ret.file.type # <<>> THEN ret.file.type
               ELSE IF /\ HasDot(ret.file.name)
                       /\ \E e \in mimeTypes : e[1] = TextAfterLastDot(ret.file.name)
                    THEN (CHOOSE e \in mimeTypes : e[1] = TextAfterLastDot(ret.file.name))[2]
                    ELSE OCTET_STREAM

\* the same for file names that have a '.'
C16_HoldsForDottedNames ==
    (Processed /\ WithinLimit /\ HasDot(ret.file.name))
        => ret.mimeType =
               IF ret.file.type # <<>> THEN ret.file.type
               ELSE IF \E e \in mimeTypes : e[1] = TextAfterLastDot(ret.file.name)
                    THEN (CHOOSE e \in mimeTypes : e[1] = TextAfterLastDot(ret.file.name))[2]
                    ELSE OCTET_STREAM

\* the base64 read of the call was started and its promise was rejected
Base64ReadFailed ==
    /\ \E k \in 1..Len(ret.result.reads) : ret.result.reads[k] = "readAsDataURL"
    /\ readFileAsBase64(ret.dataEvent).status = "rejected"

\* C17: processFile on a file within the size limit ends in exactly one
\* outcome, an attachment or an error; whenever the base64 read fails (for a
\* binary file, or for a text file whose text read failed too) it fails with
\* the error 'Failed to process file "<name>": <cause>' carrying the read's
\* own message, and returns no attachment.
C17_Base64FailureIsWrappedError ==
    (Processed /\ WithinLimit)
        => /\ \/ /\ ret.result.status = "resolved"
                 /\ DOMAIN ret.result = {"status", "value", "reads"}
              \/ /\ ret.result.status = "rejected"
                 /\ DOMAIN ret.result = {"status", "message", "reads"}
           /\ Base64ReadFailed
                <=> /\ ret.result.status = "rejected"
                    /\ ret.result.message =
                           <<"Failed to process file \"", ret.file.name, "\": ",
                             readFileAsBase64(ret.dataEvent).message>>

\* a text file whose text read and base64 read both failed has been refused
C17_Witness ==
    /\ Processed /\ WithinLimit /\ ret.isText
    /\ ret.result.reads = <<"readAsText", "readAsDataURL">>
    /\ ret.result.status = "rejected"

\* a binary file whose base64 read failed has been refused
C17_WitnessBinary ==
    /\ Processed /\ WithinLimit /\ ~ret.isText
    /\ ret.result.status = "rejected"

-----------------------------------------------------------------------------
(* ChatScreen: sendNewMessage and the state it works on *)

MaxFiles == 2     \* most files selected at once
MaxSends == 1     \* invocations of sendNewMessage in one behaviour

\* the files the user can select: n.txt, a text file holding "hi", and a.PNG,
\* one byte over the size limit
ChatFiles ==
    { [name |-> <<110, 46, 116, 120, 116>>,
       type |-> <<116, 101, 120, 116, 47, 112, 108, 97, 105, 110>>,
       size |-> 2, content |-> <<104, 105>>],
      [name |-> <<97, 46, 80, 78, 71>>,
       type |-> <<105, 109, 97, 103, 101, 47, 112, 110, 103>>,
       size |-> MAX_FILE_SIZE + 1, content |-> <<104, 105>>] }

\* what the user types: " " and "hi"
TypedTexts == { <<SPACE>>, <<104, 105>> }

\* the extra context the editor extension hands over
EditorContext == [type |-> "context", name |-> "selection", content |-> <<97>>]

\* the user edits the message
TypeText(text) ==
    /\ text # textarea
    /\ textarea' = text
    /\ UNCHANGED <<selectedFiles, extraContext, sends>>
    /\ UNCHANGED storeVars

\* no invocation of sendNewMessage is under way; the user changes the file
\* selection only then
AtRest == \A i \in 1..Len(sends) : sends[i].pc = "finished"

\* ChatScreen:136-141, e.target.files being newFiles
HandleFileChange(newFiles) ==
    /\ AtRest
    /\ selectedFiles' = newFiles
    /\ UNCHANGED <<textarea, extraContext, sends>>
    /\ UNCHANGED storeVars

\* ChatScreen:143-145
RemoveFile(indexToRemove) ==
    /\ AtRest
    /\ indexToRemove < Len(selectedFiles)
    /\ selectedFiles' = [k \in 1..(Len(selectedFiles) - 1) |->
                             IF k <= indexToRemove THEN selectedFiles[k]
                             ELSE selectedFiles[k + 1]]
    /\ UNCHANGED <<textarea, extraContext, sends>>
    /\ UNCHANGED storeVars

\* ChatScreen:147-149
ClearAllFiles ==
    /\ AtRest
    /\ selectedFiles # <<>>
    /\ selectedFiles' = <<>>
    /\ UNCHANGED <<textarea, extraContext, sends>>
    /\ UNCHANGED storeVars

\* the editor extension sets extraContext (useVSCodeContext)
ReceiveExtraContext ==
    /\ extraContext = <<>>
    /\ extraContext' = <<EditorContext>>
    /\ UNCHANGED <<textarea, selectedFiles, sends>>
    /\ UNCHANGED storeVars

\* the values of the resolved results among outcomes, in order
RECURSIVE ResolvedValues(_)
ResolvedValues(outcomes) ==
    IF outcomes = <<>> THEN <<>>
    ELSE (IF outcomes[1].result.status = "resolved" THEN <<outcomes[1].result.value>>
          ELSE <<>>) \o ResolvedValues(Tail(outcomes))

\* the messages of the rejected results among outcomes, in order
RECURSIVE RejectedMessages(_)
RejectedMessages(outcomes) ==
    IF outcomes = <<>> THEN <<>>
    ELSE (IF outcomes[1].result.status = "rejected" THEN <<outcomes[1].result.message>>
          ELSE <<>>) \o RejectedMessages(Tail(outcomes))

\* ChatScreen:175-179: the text given to alert
ErrorSummary(processingErrors) ==
    IF Len(processingErrors) = 1 THEN processingErrors[1]
    ELSE <<"Failed to process ", Len(processingErrors), " file(s):\n", processingErrors>>

\* an invocation that has returned, and how: "returned" at the first check,
\* "restored" after every file failed, "sent" or "unsent" after sendMessage;
\* selected and processed count its files and its calls of processFile
Finished(how, send) ==
    [pc |-> "finished", how |-> how, selected |-> Len(send.files),
     processed |-> Len(send.outcomes)]

\* sendMessage is called even though every file failed
AfterLoopSendAnyway(send) ==
    LET fileExtras == ResolvedValues(send.outcomes)
        processingErrors == RejectedMessages(send.outcomes)
        messageExtra == send.currExtra \o fileExtras
    IN  Spread(send, [pc |-> "sending",
                      alerted |-> IF Len(processingErrors) > 0
                                  THEN <<ErrorSummary(processingErrors)>> ELSE <<>>,
                      fileExtras |-> fileExtras,
                      processingErrors |-> processingErrors,
                      sentContent |-> send.lastInpMsg,
                      sentExtra |-> IF Len(messageExtra) > 0 THEN messageExtra
                                    ELSE UNDEFINED])

\* ChatScreen:174-204, run when the for loop is over: the alert, and either the
\* return with the input restored or the call of sendMessage
AfterLoop(send) ==
    LET fileExtras == ResolvedValues(send.outcomes)
        processingErrors == RejectedMessages(send.outcomes)
        messageExtra == send.currExtra \o fileExtras
        alerted == IF Len(processingErrors) > 0
                   THEN <<ErrorSummary(processingErrors)>> ELSE <<>>
    IN  IF Len(processingErrors) > 0 /\ Len(fileExtras) = 0 /\ Len(send.files) > 0
        THEN Spread(send, [pc |-> "restoring", alerted |-> alerted])
        ELSE Spread(send, [pc |-> "sending", alerted |-> alerted,
                           fileExtras |-> fileExtras,
                           processingErrors |-> processingErrors,
                           sentContent |-> send.lastInpMsg,
                           sentExtra |-> IF Len(messageExtra) > 0 THEN messageExtra
                                         ELSE UNDEFINED])

\* the for loop gives up at the first file that fails
AfterFileAbortOnError(send, outcome) ==
    LET next == Spread(send, [outcomes |-> Append(send.outcomes, outcome)])
    IN  IF Len(next.outcomes) = Len(send.files) \/ outcome.result.status = "rejected"
        THEN AfterLoop(next) ELSE next

\* ChatScreen:163-172: one turn of the for loop, processFile(file) having
\* settled: the result is kept and the loop goes on to the next file or ends
AfterFile(send, outcome) ==
    LET next == Spread(send, [outcomes |-> Append(send.outcomes, outcome)])
    IN  IF Len(next.outcomes) = Len(send.files) THEN AfterLoop(next) ELSE next

\* sends with its i-th invocation replaced
SetSend(i, send) == [sends EXCEPT ![i] = send]

\* ChatScreen:151-158 and, when no file is selected, on to the call of
\* sendMessage; generating is what isGenerating(currConvId) returns
SendNewMessageWithin(limit, generating) ==
    /\ Len(sends) < limit
    /\ LET lastInpMsg == textarea
       IN  IF IsBlank(lastInpMsg) \/ generating
           THEN /\ sends' = Append(sends, Finished("returned", [files |-> selectedFiles,
                                                                outcomes |-> <<>>]))
                /\ UNCHANGED textarea
           ELSE LET send == [pc |-> "processing", lastInpMsg |-> lastInpMsg,
                             files |-> selectedFiles, currExtra |-> extraContext,
                             outcomes |-> <<>>]
                IN  /\ textarea' = <<>>
                    /\ sends' = Append(sends, IF selectedFiles = <<>> THEN AfterLoop(send)
                                              ELSE send)
    /\ UNCHANGED <<selectedFiles, extraContext>>
    /\ UNCHANGED storeVars

\* sendNewMessage, followed for at most MaxSends invocations
SendNewMessage(generating) == SendNewMessageWithin(MaxSends, generating)

\* ChatScreen:163-186: await processFile(file) settles for the next file of the
\* i-th invocation, the reader having delivered textEvent and dataEvent
FileSettled(i, textEvent, dataEvent) ==
    /\ i <= Len(sends)
    /\ sends[i].pc = "processing"
    /\ LET file == sends[i].files[Len(sends[i].outcomes) + 1]
           next == AfterFile(sends[i], [file |-> file,
                                        result |-> processFile(file, textEvent, dataEvent)])
       IN  /\ textEvent \in TextEvents(file)
           /\ dataEvent \in DataEvents(file)
           /\ IF next.pc = "restoring"
              THEN /\ textarea' = next.lastInpMsg
                   /\ sends' = SetSend(i, Finished("restored", next))
              ELSE /\ sends' = SetSend(i, next)
                   /\ UNCHANGED textarea
    /\ UNCHANGED <<selectedFiles, extraContext>>
    /\ UNCHANGED storeVars

\* ChatScreen:196-212: await sendMessage(...) settles with ok
SendMessageSettled(i, ok) ==
    /\ i <= Len(sends)
    /\ sends[i].pc = "sending"
    /\ IF ok THEN selectedFiles' = <<>> /\ UNCHANGED textarea
       ELSE textarea' = sends[i].lastInpMsg /\ UNCHANGED selectedFiles
    /\ extraContext' = <<>>
    /\ sends' = SetSend(i, Finished(IF ok THEN "sent" ELSE "unsent", sends[i]))
    /\ UNCHANGED storeVars

\* every event a FileReader can deliver for a file the user can select
ChatEvents == UNION {TextEvents(f) \cup DataEvents(f) : f \in ChatFiles}

InitScreen ==
    InitWith({c \in StoreConfigs : c.maxDocuments = 1}, {[op |-> "none"]})

NextScreen ==
    \/ \E text \in TypedTexts : TypeText(text)
    \/ \E newFiles \in ListsUpTo(ChatFiles, MaxFiles) : HandleFileChange(newFiles)
    \/ \E indexToRemove \in 0..(MaxFiles - 1) : RemoveFile(indexToRemove)
    \/ ClearAllFiles
    \/ ReceiveExtraContext
    \/ \E generating \in BOOLEAN : SendNewMessage(generating)
    \/ \E i \in 1..MaxSends, textEvent \in ChatEvents, dataEvent \in ChatEvents :
           FileSettled(i, textEvent, dataEvent)
    \/ \E i \in 1..MaxSends, ok \in BOOLEAN : SendMessageSettled(i, ok)

SpecScreen == InitScreen /\ [][NextScreen]_vars

-----------------------------------------------------------------------------
(* Properties of sendNewMessage *)

\* the positions of the files of an invocation whose processFile resolved
Succeeded(send) ==
    {k \in 1..Len(send.outcomes) : send.outcomes[k].result.status = "resolved"}

\* the j-th smallest member of a set of numbers
Nth(S, j) == CHOOSE k \in S : Cardinality({l \in S : l < k}) = j - 1

\* C20: in sendNewMessage a failing file never aborts the batch: processFile
\* is invoked exactly once for every selected file, in selection order, so the
\* attachments and the error messages together number the selected files; when
\* at least one file succeeded, sendMessage is called with exactly the
\* successful files' attachments in selection order, after the editor's extra
\* context if there is one.
C20_EveryFileProcessedOnce ==
    \A i \in 1..Len(sends) :
        LET send == sends[i]
        IN  /\ send.pc \in {"processing", "sending"}
                => /\ Len(send.outcomes) <= Len(send.files)
                   /\ \A k \in 1..Len(send.outcomes) : send.outcomes[k].file = send.files[k]
            /\ send.pc = "processing" => Len(send.outcomes) < Len(send.files)
            /\ (send.pc = "finished" /\ send.how # "returned")
                => send.processed = send.selected
            /\ send.pc = "sending"
                => /\ Len(send.outcomes) = Len(send.files)
                   /\ Len(send.fileExtras) + Len(send.processingErrors) = Len(send.files)
                   /\ Len(send.fileExtras) = Cardinality(Succeeded(send))
                   /\ \A j \in 1..Len(send.fileExtras) :
                          send.fileExtras[j] = send.outcomes[Nth(Succeeded(send), j)].result.value
                   /\ Len(send.fileExtras) > 0
                          => send.sentExtra = send.currExtra \o send.fileExtras

\* sendMessage has been called for two selected files of which the first
\* failed and the second succeeded, after the editor's extra context
C20_Witness ==
    \E i \in 1..Len(sends) :
        /\ sends[i].pc = "sending"
        /\ Len(sends[i].files) = 2
        /\ Succeeded(sends[i]) = {2}
        /\ Len(sends[i].sentExtra) = 2
        /\ sends[i].sentExtra[1] = EditorContext

\* C21: in sendNewMessage, when at least one file was selected and every
\* selected file fails to process, sendMessage is not called, the text input
\* is set back to the message the user had typed, and the file selection is
\* left as it was: an invocation leaves its for loop either for sendMessage
\* with at least one file processed successfully, or by returning with the
\* input restored and the selection untouched.
C21_AllFailedRestoresInput ==
    [][\A i \in 1..Len(sends) :
           (sends[i].pc = "processing" /\ sends'[i].pc # "processing")
               => IF sends'[i].pc = "sending"
                  THEN Succeeded(sends'[i]) # {}
                  ELSE /\ sends'[i].pc = "finished" /\ sends'[i].how = "restored"
                       /\ Succeeded(sends[i]) = {}
                       /\ sends'[i].processed = Len(sends[i].files)
                       /\ textarea' = sends[i].lastInpMsg
                       /\ selectedFiles' = selectedFiles]_vars

\* an invocation with two selected files has returned after both failed, the
\* typed message is back in the text input and both files are still selected
C21_Witness ==
    \E i \in 1..Len(sends) :
        /\ sends[i].pc = "finished" /\ sends[i].how = "restored"
        /\ sends[i].selected = 2
        /\ textarea = <<104, 105>>
        /\ Len(selectedFiles) = 2

-----------------------------------------------------------------------------
(* The hash loop of generateSimpleEmbedding: rag.ts:80-87 *)

\* -2^31 and 2^31 - 1, the ends of the signed 32-bit range
MinInt32 == -2147483647 - 1

MaxInt32 == 2147483647

\* hash values a turn of the loop can start from
HashInputs ==
    { 0, 1, -1, 97, 3105, 65535, 65536, -65536, 69273666, 69273667, -69273667,
      -69273668, 1073741823, 1073741824, -1073741824, 1200445188, -1236860927,
      -1910022912, MaxInt32 - 1, MaxInt32, MinInt32 + 1, MinInt32 }

\* values of word.charCodeAt(i)
CharCodeInputs == { 0, SPACE, 97, 122, 233, 55357, 65535 }

\* texts with tokens long enough for the hash to wrap around:
\* "zzzzzzzz aaaaaaa", "hello  world", " abababab"
LongTexts ==
    { <<122, 122, 122, 122, 122, 122, 122, 122, 32, 97, 97, 97, 97, 97, 97, 97>>,
      <<104, 101, 108, 108, 111, 32, 32, 119, 111, 114, 108, 100>>,
      <<32, 97, 98, 97, 98, 97, 98, 97, 98>> }

\* the value of hash after each of the first i characters of word, i from 0
PrefixHashes(word) == [i \in 0..Len(word) |-> HashFrom(SubSeq(word, 1, i), 1, 0)]

\* rag.ts:83-85: one turn of the inner loop from the hash value h, and the
\* index the value before and after would select
HashTurn(h, c) ==
    /\ ret' = [op |-> "hashTurn", hash |-> h, charCode |-> c, next |-> HashStep(h, c),
               indexBefore |-> BucketIndex(h), indexAfter |-> BucketIndex(HashStep(h, c))]
    /\ UNCHANGED <<config, documents, now, issued, addCount, insertedAt>>
    /\ UNCHANGED screenVars

\* rag.ts:78-87: the loop over the words of text, before the normalisation
EmbeddingLoop(text) ==
    /\ LET words == EmbeddingWords(text)
       IN  ret' = [op |-> "embeddingLoop", text |-> text, words |-> words,
                   hashes |-> [k \in 1..Len(words) |-> PrefixHashes(words[k])],
                   indices |-> [k \in 1..Len(words) |-> BucketIndex(WordHash(words[k]))],
                   counts |-> BucketCounts(text)]
    /\ UNCHANGED <<config, documents, now, issued, addCount, insertedAt>>
    /\ UNCHANGED screenVars

InitHash ==
    InitWith({c \in StoreConfigs : c.maxDocuments = 1},
             {[op |-> "hashInput", hash |-> h, charCode |-> c] :
                  h \in HashInputs, c \in CharCodeInputs}
             \cup {[op |-> "textInput", text |-> t] : t \in StringsUpTo(MaxLen) \cup LongTexts})

NextHash ==
    \/ ret.op = "hashInput" /\ HashTurn(ret.hash, ret.charCode)
    \/ ret.op = "textInput" /\ EmbeddingLoop(ret.text)

SpecHash == InitHash /\ [][NextHash]_vars

-----------------------------------------------------------------------------
(* Properties of the hash loop *)

\* a + b reduced to a signed 32-bit integer, for signed 32-bit a and b
AddInt32(a, b) ==
    IF a >= 0 /\ b >= 0 /\ b > MaxInt32 - a
    THEN (a - MaxInt32 - 1) + (b - MaxInt32 - 1)
    ELSE IF a < 0 /\ b < 0 /\ b < MinInt32 - a
    THEN (a + MaxInt32 + 1) + (b + MaxInt32 + 1)
    ELSE a + b

\* -a reduced to a signed 32-bit integer
NegInt32(a) == IF a = MinInt32 THEN MinInt32 ELSE -a

\* 2 * a reduced to a signed 32-bit integer
DoubleInt32(a) == AddInt32(a, a)

\* h * 31 + c reduced to a signed 32-bit integer, as 32 * h - h + c
Times31Plus(h, c) ==
    AddInt32(AddInt32(DoubleInt32(DoubleInt32(DoubleInt32(DoubleInt32(DoubleInt32(h))))),
                      NegInt32(h)), c)

RECURSIVE SumCounts(_, _)
SumCounts(counts, indices) ==
    IF indices = {} THEN 0
    ELSE LET i == CHOOSE j \in indices : TRUE
         IN  counts[i] + SumCounts(counts, indices \ {i})

\* C23: for every token the hash after each character is hash * 31 + charCode
\* reduced to a signed 32-bit integer; the bucket index abs(hash) mod 100 lies
\* in 0..99 for every hash value, -2^31 included; each token increments exactly
\* one bucket by 1, so before the normalisation the bucket counts sum to the
\* number of tokens.
C23_WrappedHashAndBucket ==
    /\ ret.op = "hashTurn"
        => /\ ret.next = Times31Plus(ret.hash, ret.charCode)
           /\ ret.indexBefore \in 0..99 /\ ret.indexAfter \in 0..99
           /\ IF ret.hash >= 0 THEN (ret.hash - ret.indexBefore) % 100 = 0
              ELSE (ret.hash + ret.indexBefore) % 100 = 0
    /\ ret.op = "embeddingLoop"
        => /\ \A k \in 1..Len(ret.words) :
                  /\ ret.hashes[k][0] = 0
                  /\ \A i \in 1..Len(ret.words[k]) :
                         ret.hashes[k][i] = Times31Plus(ret.hashes[k][i - 1], ret.words[k][i])
                  /\ ret.indices[k] \in 0..99
           /\ \A b \in 0..99 :
                  ret.counts[b] = Cardinality({k \in 1..Len(ret.words) : ret.indices[k] = b})
           /\ SumCounts(ret.counts, Support(ret.counts)) = Len(ret.words)

\* the bucket index of the hash value -2^31 has been computed
C23_Witness ==
    /\ ret.op = "hashTurn"
    /\ ret.hash = MinInt32
    /\ ret.indexBefore = 48

\* a token whose hash wrapped around to a negative value has been counted
C23_WitnessWrapped ==
    /\ ret.op = "embeddingLoop"
    /\ \E k \in 1..Len(ret.words) : ret.hashes[k][Len(ret.words[k])] < 0

-----------------------------------------------------------------------------
(* Several addDocument calls started together: README.md:194-208 *)

\* the longest array of documents handed to Promise.all
MaxBatch == 3

\* the arrays of documents a caller adds together
Batches == ListsUpTo(DocInputs, MaxBatch) \ {<<>>}

\* the Map after an insert that skips the capacity check
StoreAfterAddUnchecked(m, document, maxDocuments) == MapSet(m, document.id, document)

\* rag.ts:154-161: the insert and the capacity check that follows it
StoreAfterAdd(m, document, maxDocuments) ==
    LimitDocuments(MapSet(m, document.id, document), maxDocuments)

\* documents.map(doc => ragStore.addDocument(doc)) calls addDocument for the
\* next element of the array.  addDocument is declared async and contains no
\* await (rag.ts:133-164), so the call runs its body to the return statement
\* before map goes on to the next element, and the promise it returns is
\* already resolved with the id.
AddDocumentInBatch(suffix, later) ==
    /\ ret.op = "batch"
    /\ ret.started < Len(ret.docs)
    /\ later >= now /\ later <= MaxTime
    /\ LET doc      == ret.docs[ret.started + 1]
           id       == <<now, suffix>>
           document == NewDocument(doc, id, later)
           stored   == StoreAfterAdd(documents, document, config.maxDocuments)
       IN  /\ documents' = stored
           /\ ret' = [ret EXCEPT !.started = @ + 1, !.promises = Append(@, Resolved(id))]
           /\ issued' = issued \cup {id}
           /\ insertedAt' = [k \in MapKeys(stored) |->
                                IF k = id THEN addCount + 1 ELSE insertedAt[k]]
    /\ now' = later
    /\ addCount' = addCount + 1
    /\ UNCHANGED config
    /\ UNCHANGED screenVars

\* await Promise.all(...): once map has returned, the ids of all the calls
PromiseAllSettled ==
    /\ ret.op = "batch"
    /\ ret.started = Len(ret.docs)
    /\ ~ret.settled
    /\ ret' = [ret EXCEPT !.settled = TRUE,
                           !.all = [k \in 1..Len(ret.promises) |-> ret.promises[k].value]]
    /\ UNCHANGED <<config, documents, now, issued, addCount, insertedAt>>
    /\ UNCHANGED screenVars

InitBatch ==
    InitWith(StoreConfigs,
             {[op |-> "batch", docs |-> b, started |-> 0, promises |-> <<>>,
               settled |-> FALSE, all |-> <<>>] : b \in Batches})

NextBatch ==
    \/ \E suffix \in Suffixes, later \in {now, now + 1} : AddDocumentInBatch(suffix, later)
    \/ PromiseAllSettled

SpecBatch == InitBatch /\ [][NextBatch]_vars

-----------------------------------------------------------------------------
(* Properties of a batch of insertions *)

\* C22: when several addDocument calls are started together, each call's insert
\* and capacity check are one step: before and after every call the store holds
\* at most maxDocuments documents, every started call has returned its id, and
\* a call removes at most one of the documents stored before it.
C22_EachCallIsOneStep ==
    [][/\ Len(documents) <= config.maxDocuments
       /\ ret.started = Len(ret.promises)
       /\ AddStep =>
            /\ Len(documents') <= config.maxDocuments
            /\ Cardinality(MapKeys(documents) \ MapKeys(documents')) <= 1
            /\ Len(documents') >= Len(documents)
            /\ ret'.started = ret.started + 1
            /\ Len(ret'.promises) = ret'.started]_vars

\* a batch longer than the capacity has run to the end, evicting on the way
C22_Witness ==
    /\ ret.op = "batch"
    /\ ret.settled
    /\ Len(ret.docs) > config.maxDocuments
    /\ Cardinality(Range(ret.all)) > config.maxDocuments
    /\ Len(documents) = config.maxDocuments

-----------------------------------------------------------------------------
(* Properties of the returned id *)

-----------------------------------------------------------------------------
(* chunkText: rag.ts:38-51 *)

\* the largest chunkSize and overlap passed to chunkText
MaxChunkSize == 3

\* the number of chunks of a call that the model records
MaxChunks == 6

\* Math.min(a, b)
MathMin(a, b) == IF a < b THEN a ELSE b

\* the index String.prototype.slice turns an argument into: a negative one
\* counts from the end, and both ends are clamped to the string
SliceIndex(text, k) ==
    IF k < 0 THEN (IF Len(text) + k < 0 THEN 0 ELSE Len(text) + k)
    ELSE MathMin(k, Len(text))

\* text.slice(start, end)
Slice(text, start, end) ==
    SubSeq(text, SliceIndex(text, start) + 1, SliceIndex(text, end))

ChunkInputs ==
    {[op |-> "chunkText", text |-> t, chunkSize |-> s, overlap |-> o,
      start |-> 0, chunks |-> <<>>, odd |-> FALSE, pc |-> "while"]
        : t \in StringsUpTo(MaxLen), s \in 1..MaxChunkSize, o \in 0..MaxChunkSize}

\* every start at or below this one behaves alike: end = start + chunkSize is
\* at most -text.length, slice(start, end) is empty, end is not text.length
\* and the next start is smaller still; the model keeps start at this value
StartFloor(text, chunkSize) == -(Len(text) + chunkSize)

\* rag.ts:42-48: one turn of the while loop, ended by the break or by the
\* assignment to start.  Of the chunks pushed the model records the first
\* MaxChunks, and of chunks.length whether it is odd
ChunkTextTurn ==
    /\ ret.op = "chunkText" /\ ret.pc = "while"
    /\ ret.start < Len(ret.text)
    /\ LET end    == MathMin(ret.start + ret.chunkSize, Len(ret.text))
           chunks == IF Len(ret.chunks) < MaxChunks
                     THEN Append(ret.chunks, Slice(ret.text, ret.start, end))
                     ELSE ret.chunks
           floor  == StartFloor(ret.text, ret.chunkSize)
       IN  ret' = IF end = Len(ret.text)
                  THEN [ret EXCEPT !.chunks = chunks, !.odd = ~@, !.pc = "returned"]
                  ELSE [ret EXCEPT !.chunks = chunks, !.odd = ~@,
                                   !.start = IF end - ret.overlap < floor THEN floor
                                             ELSE end - ret.overlap]
    /\ UNCHANGED <<config, documents, now, issued, addCount, insertedAt>>
    /\ UNCHANGED screenVars

\* rag.ts:42, 50: the loop condition is false and chunks is returned
ChunkTextExit ==
    /\ ret.op = "chunkText" /\ ret.pc = "while"
    /\ ~(ret.start < Len(ret.text))
    /\ ret' = [ret EXCEPT !.pc = "returned"]
    /\ UNCHANGED <<config, documents, now, issued, addCount, insertedAt>>
    /\ UNCHANGED screenVars

InitChunk == InitWith({c \in StoreConfigs : c.maxDocuments = 1}, ChunkInputs)

NextChunk ==
    \/ ChunkTextTurn
    \/ ChunkTextExit

\* a call that has started keeps running: nothing suspends a synchronous loop
SpecChunk == InitChunk /\ [][NextChunk]_vars /\ WF_vars(NextChunk)

-----------------------------------------------------------------------------
(* Properties of chunkText *)

\* the call has returned chunks of at most chunkSize characters, the last of
\* them ending at the end of the text
ReturnedChunks ==
    /\ ret.pc = "returned"
    /\ \A k \in 1..Len(ret.chunks) : Len(ret.chunks[k]) <= ret.chunkSize
    /\ ret.chunks # <<>> =>
           LET last == ret.chunks[Len(ret.chunks)]
           IN  /\ Len(last) >= 1
               /\ last = SubSeq(ret.text, Len(ret.text) - Len(last) + 1, Len(ret.text))

\* the overlap is not smaller than the chunk size and the text is longer than
\* one chunk
NoProgress == ret.overlap >= ret.chunkSize /\ Len(ret.text) > ret.chunkSize

\* C24: chunkText(text, chunkSize, overlap) terminates for every text and every
\* integer chunkSize >= 1 and overlap >= 0, returning chunks of at most
\* chunkSize characters whose last chunk ends at the end of the text.
C24_Terminates == <>ReturnedChunks

\* the same for the calls in which overlap < chunkSize or the text fits in one
\* chunk
C24_TerminatesWhenProgress == (~NoProgress) ~> ReturnedChunks

\* with overlap >= chunkSize and a text longer than one chunk the call never
\* returns
C24_NoProgressNeverReturns == NoProgress => ret.pc = "while"

\* the loop has pushed MaxChunks chunks and start has gone below zero
C24_WitnessNoProgress ==
    /\ NoProgress
    /\ Len(ret.chunks) = MaxChunks
    /\ ret.start < 0

-----------------------------------------------------------------------------
(* sendNewMessage called again before an earlier invocation has finished *)

\* the invocations that have passed the guard and not yet finished
Active == {i \in 1..Len(sends) : sends[i].pc \in {"processing", "sending"}}

\* an invocation has called sendMessage and awaits it
Sending == \E i \in 1..Len(sends) : sends[i].pc = "sending"

\* ChatScreen:151-158, with one invocation more than SpecScreen follows.
\* isGenerating(currConvId) is taken to be true from the call of sendMessage
\* until it settles, and to be either value otherwise
SendNewMessageAgain(generating) ==
    /\ Sending => generating
    /\ SendNewMessageWithin(MaxSends + 1, generating)

NextReentry ==
    \/ \E text \in TypedTexts : TypeText(text)
    \/ \E newFiles \in ListsUpTo(ChatFiles, MaxFiles) : HandleFileChange(newFiles)
    \/ \E indexToRemove \in 0..(MaxFiles - 1) : RemoveFile(indexToRemove)
    \/ ClearAllFiles
    \/ ReceiveExtraContext
    \/ \E generating \in BOOLEAN : SendNewMessageAgain(generating)
    \/ \E i \in 1..(MaxSends + 1), textEvent \in ChatEvents, dataEvent \in ChatEvents :
           FileSettled(i, textEvent, dataEvent)
    \/ \E i \in 1..(MaxSends + 1), ok \in BOOLEAN : SendMessageSettled(i, ok)

SpecReentry == InitScreen /\ [][NextReentry]_vars

-----------------------------------------------------------------------------
(* Properties of overlapping invocations *)

\* C26: at most one invocation of sendNewMessage is processing files or sending
\* at any time: an invocation that starts while an earlier one has not finished
\* returns without calling processFile or sendMessage.
C26_AtMostOneActive == Cardinality(Active) <= 1

\* the part of C26 that the isGenerating guard gives: while an invocation awaits
\* sendMessage, an invocation that starts returns at once
C26_NoStartWhileSending ==
    [][(Sending /\ Len(sends') = Len(sends) + 1)
           => /\ sends'[Len(sends')].pc = "finished"
              /\ sends'[Len(sends')].how = "returned"]_vars

\* two invocations are processing the same file selection at the same time
C26_WitnessOverlap ==
    \E i, j \in Active :
        /\ i < j
        /\ sends[i].pc = "processing" /\ sends[j].pc = "processing"
        /\ sends[i].files = sends[j].files
        /\ sends[i].files # <<>>

====
